---- MODULE Spec2Model ----
(***************************************************************************)
(* The multi-process agent server of src/agentscope/cpp_server: the        *)
(* front-end (class Worker in the parent process, one thread per inbound   *)
(* RPC), the worker children (main loop and detached handler threads),     *)
(* the shared-memory channel, the call-id pool with its completion         *)
(* semaphores, the agent routing table and the task registry.              *)
(*                                                                         *)
(* Granularity.  One action is one stretch of a thread between two points  *)
(* at which it can block or at which another thread can observe it: a      *)
(* semaphore wait, a mutex or shared_mutex acquisition, a condition wait.  *)
(* Writes into memory that the thread owns at that moment (the command     *)
(* slot after worker-available was consumed, the payload slot of a call-id *)
(* it holds) are folded into the step that publishes them.                 *)
(* Each operation on _tasks (emplace_back, pop_front, front, size,         *)
(* operator[]) is one atomic container operation, although the head and    *)
(* the tail mutex do not exclude each other.                               *)
(***************************************************************************)
EXTENDS Integers, Sequences, FiniteSets, TLC

(* ------------------------------ bounds -------------------------------- *)
\* _num_workers (worker.cc:70), the number of forked children.
NumWorkers == 2
\* _max_call_id (worker.cc:74, AGENTSCOPE_MAX_CALL_ID), the size of the id pool.
MaxCallId == 2
\* _max_tasks (worker.cc:85).
MaxTasks == 1
\* _max_timeout_seconds (worker.cc:86).
MaxTimeout == 1
\* Number of front-end RPC threads that issue calls concurrently.
NumThreads == 2
\* call_reply is issued at most this many times in one behaviour.
MaxReplies == 2
\* The wall clock runs from 0 to MaxTime seconds.
MaxTime == 2
\* clone_agent is issued at most this many times in one behaviour.
MaxClones == 1
\* The sequential client issues at most this many calls in one behaviour.
MaxCalls == 4
\* The constructor is followed through at most this many forks.
MaxForks == 3
\* The single-process servicer answers at most this many calls.
MaxServicerCalls == 3

(* ------------------------- program constants -------------------------- *)
\* _small_obj_size(1000)
SmallObjSize == 1000

(* ------------------------------ values -------------------------------- *)
Workers == 0 .. (NumWorkers - 1)
CallIds == 0 .. (MaxCallId - 1)
Threads == 1 .. NumThreads
\* The front-end thread that serves the sequential client: one client that
\* issues one call after the other, each after the previous one returned.
SeqThreads == {1}
TaskIds == 0 .. (MaxReplies - 1)
\* The task-ids a client may ask for with update_placeholder: the assigned
\* ones, a negative one and one that no reply of the behaviour gets.
RequestedTaskIds == -1 .. MaxReplies

\* Agent ids a client may name, and the ids the agent host gives to clones.
ClientAgents == {<<"a">>}
CloneId(i) == <<"a", i>>
CloneAgents == {CloneId(i) : i \in 1 .. MaxClones}
AgentIds == ClientAgents \cup CloneAgents

\* Messages a client sends with _reply: a short one and one whose bytes
\* exceed the small-object slot.
Msgs == {"m", "M"}
MsgLen(m) == IF m = "M" THEN SmallObjSize + 1 ELSE 1

\* enum function_ids
create_agent == 0
delete_agent == 1
delete_all_agents == 2
clone_agent == 3
get_agent_list == 4
set_model_configs == 5
get_agent_memory == 6
reply == 7
observe == 8

None == [none |-> TRUE]
NoAgent == <<>>
\* get_worker_id_by_agent_id returns -1 for an id that is not in the table.
NoWorker == -1
\* An unlocked mutex (thread ids start at 1), an interpreter guard nobody holds.
Free == 0
NoHolder == <<>>

\* A serialized payload: what it decodes to, and its length in bytes.
Bytes(v, n) == [v |-> v, n |-> n]
EmptyStr == Bytes("", 0)
\* AgentArgs / CreateAgentArgs carry the agent id; ReplyArgs the message,
\* the task id and the callback id as well.
AgentArgsBytes(a) == Bytes(<<"AgentArgs", a>>, 1)
ReplyArgsBytes(a, m, t, cb) == Bytes(<<"ReplyArgs", a, m, t, cb>>, MsgLen(m) + 3)
ObserveArgsBytes(a, m) == Bytes(<<"ObserveArgs", a, m>>, MsgLen(m) + 2)
\* ModelConfigsArgs carries the model_configs string.
ModelConfigsArgsBytes(m) == Bytes(<<"ModelConfigsArgs", m>>, MsgLen(m))
\* to_string(task_id)
TaskIdBytes(t) == Bytes(<<"task_id", t>>, 1)
\* MsgReturn{ok, message}.SerializeAsString(); the reply of the agent to
\* message m of task t is as long as m.
MsgReturnBytes(ok, t, m) == Bytes(<<"MsgReturn", ok, t, m>>, MsgLen(m) + 2)
AgentIdBytes(a) == Bytes(<<"agent_id", a>>, 1)
\* MsgReturn{ok, message} of get_agent_memory_worker: the serialized memory
\* m, or the message that the agent has none.
MemoryReturnBytes(a, m) ==
    IF m = "" THEN Bytes(<<"MsgReturn", FALSE, <<"has no memory", a>> >>, 3)
    ELSE Bytes(<<"MsgReturn", TRUE, m>>, MsgLen(m) + 2)
\* AgentListReturn.SerializeAsString(): one string per agent of the pool,
\* no byte at all for an empty pool.
AgentListBytes(agents) == Bytes(<<"AgentListReturn", agents>>, Cardinality(agents))
ErrorBytes(a) == Bytes(<<"error", a>>, 1)

VARIABLES
    pc,          \* pc[f]: where front-end thread f stands
    loc,         \* loc[f]: the locals of the call f is executing
    pool,        \* _call_id_pool, a FIFO queue of call-ids
    sem,         \* the completion semaphores, one per call-id (_call_sem_ids)
    avail,       \* worker-available semaphore of each worker
    ready,       \* function-ready semaphore of each worker
    cmd,         \* the command slot of each worker in _call_worker_shm
    slot,        \* _small_obj_pool_shm: one (occupied, payload) slot per call-id
    shm,         \* named segments /args_<port>_<id> and /result_<port>_<id>
    map,         \* _agent_id_map, agent id -> worker id (NoWorker: absent)
    maplock,     \* exclusive holder of _agent_id_map_mutex (Free: nobody)
    agent_pool,  \* _agent_pool of each worker child
    readers,     \* number of shared holders of each child's _agent_pool_mutex
    gil,         \* holder of the interpreter guard of each child
    wstate,      \* "forked", "serving" or "dead", per worker child
    h,           \* h[c]: the handler thread started for call-id c
    rr,          \* rr[cb]: the reply handler that will answer callback-id cb
    tasks,       \* _tasks, the deque of (timestamp, Task)
    num_tasks,   \* _num_tasks
    tail,        \* holder of _tasks_tail_mutex
    headr,       \* shared holders of _tasks_head_mutex
    helper,      \* helper[t]: the detached helper thread of task t
    now,         \* get_current_timestamp()
    nclones,     \* number of clones the agent host has constructed
    nset,        \* history: set_result calls on a call-id since it was handed out
    written,     \* history: the payload set_result(callback_id) wrote for a task
    log,         \* history: the answers the sequential client has received
    main,        \* the main process: SetupCppServer, the global worker, ~Worker
    child,       \* child[i]: the process forked for worker index i
    names,       \* the named IPC objects that exist (segments apart: shm)
    servicer     \* the single-process servicer of src/agentscope/server, when built

vars == <<pc, loc, pool, sem, avail, ready, cmd, slot, shm, map, maplock,
          agent_pool, readers, gil, wstate, h, rr, tasks, num_tasks, tail,
          headr, helper, now, nclones, nset, written, log, main, child,
          names, servicer>>

ipcVars == <<pool, sem, avail, ready, cmd, slot, shm>>
agentVars == <<map, maplock, agent_pool, readers, gil, wstate, nclones>>
taskVars == <<tasks, num_tasks, tail, headr, helper, written>>
lifeVars == <<main, child, names>>
histVars == <<nset, log, lifeVars, servicer>>

(* ----------------------- shared-memory channel ------------------------ *)
NoSeg == [noseg |-> TRUE]
EmptySlot == [occupied |-> FALSE, data |-> None]
\* A command slot whose pair has been read (the bytes stay in memory; the
\* worker does not read them again before the next function-ready post).
NoCmd == [call_id |-> -1, func |-> -1]

\* Faulty variant of UsesSmallSlot: a payload of exactly the slot's size
\* goes to a named segment.
UsesSmallSlot_Strict(content) == content.n < SmallObjSize
\* set_content: the small path is taken when the payload fits.
UsesSmallSlot(content) == content.n <= SmallObjSize

\* set_content, its effect on the small-object pool.
set_content_slot(sl, c, content) ==
    IF UsesSmallSlot(content)
    THEN [sl EXCEPT ![c] = [occupied |-> TRUE, data |-> content]]
    ELSE sl

\* set_content, its effect on the named segments (shm_open O_CREAT, write).
set_content_shm(sh, prefix, c, content) ==
    IF UsesSmallSlot(content)
    THEN sh
    ELSE [sh EXCEPT ![<<prefix, c>>] = content]

\* Faulty variant of get_content_val: the slot is read whatever its flag.
get_content_val_SlotOnly(sl, sh, prefix, c) == sl[c].data
\* get_content, the string it returns: the slot's payload when the slot is
\* occupied, else the content of the named segment.
get_content_val(sl, sh, prefix, c) ==
    IF sl[c].occupied THEN sl[c].data ELSE sh[<<prefix, c>>]

\* get_content, its effect on the small-object pool: *occupied = false.
\* (The code leaves the bytes in place; no reader looks at them while the
\* flag is 0, so the slot is shown empty.)
get_content_slot(sl, c) ==
    IF sl[c].occupied THEN [sl EXCEPT ![c] = EmptySlot] ELSE sl

\* get_content, its effect on the named segments: shm_unlink after the read.
get_content_shm(sl, sh, prefix, c) ==
    IF sl[c].occupied THEN sh ELSE [sh EXCEPT ![<<prefix, c>>] = NoSeg]

\* The two directions of the channel (_func_args_shm_prefix and
\* _func_result_shm_prefix, without the port).
Prefixes == {"args", "result"}
\* Call-id c carries no payload: its slot is not occupied and neither of
\* its named segments exists.  Every set_content of the server finds its
\* call-id so: the id comes fresh from the pool, or the handler has just
\* read the arguments.
ChannelFree(sl, sh, c) ==
    ~sl[c].occupied /\ \A prefix \in Prefixes : sh[<<prefix, c>>] = NoSeg

\* Payload lengths on both sides of the small-object limit, and payloads of
\* these lengths (two different ones per length, one empty string).
PayloadLens == {0, 1, SmallObjSize, SmallObjSize + 1}
Payloads ==
    {EmptyStr} \cup
    {Bytes(v, n) : v \in {"x", "y"}, n \in PayloadLens \ {0}}

(* --------------------------- call-id pool ----------------------------- *)
\* get_call_id: the wait predicate of _call_id_cv.
CanGetCallId(p) == p /= <<>>
\* get_call_id: call_id = _call_id_pool.front(); _call_id_pool.pop().
FrontCallId(p) == Head(p)
\* Faulty variant of PopCallId: front() without pop().
PopCallId_Keep(p) == p
PopCallId(p) == Tail(p)
\* Faulty variant of PushCallId: the id is pushed twice.
PushCallId_Twice(p, c) == Append(Append(p, c), c)
\* get_result: _call_id_pool.push(call_id).
PushCallId(p, c) == Append(p, c)


(* --------------------------- task registry ---------------------------- *)
\* is_timeout(timestamp)
is_timeout(timestamp, t) == t - timestamp > MaxTimeout

\* Faulty variant of TrimCond: the front is popped whether finished or not.
TrimCond_Unfinished(q, t) ==
    /\ q /= <<>>
    /\ (Len(q) >= MaxTasks \/ is_timeout(q[1].ts, t))
\* The condition of the head-trim loop of get_task_id_and_callback_id.
TrimCond(q, t) ==
    /\ q /= <<>>
    /\ q[1].finished
    /\ (Len(q) >= MaxTasks \/ is_timeout(q[1].ts, t))

\* while (TrimCond) _tasks.pop_front();
RECURSIVE TrimLoop(_, _)
TrimLoop(q, t) == IF TrimCond(q, t) THEN TrimLoop(Tail(q), t) ELSE q

\* Faulty variant of TaskIndex: the index is off by one.
TaskIndex_OffByOne(q, task_id) == task_id - q[1].id + 1
\* get_task_result: idx = task_id - _tasks.front().task_id, and the range test.
TaskIndex(q, task_id) == task_id - q[1].id
InRange(idx, q) == 0 <= idx /\ idx < Len(q)

\* The position of task t in the deque, 0 when it is not there.
PosOf(q, t) ==
    IF \E i \in 1 .. Len(q) : q[i].id = t
    THEN CHOOSE i \in 1 .. Len(q) : q[i].id = t
    ELSE 0

(* ------------------------- processes and names ----------------------- *)
\* The worker indices the fork loop is followed through.
Children == 0 .. (MaxForks - 1)
\* _main_worker_pid, the pid of the process that constructed the Worker
\* (the child of worker index i is given the pid i).
MainPid == -1
\* The names the constructor creates before the fork loop (the command
\* region, the small-object pool, the semaphore sets of the call-ids) and
\* in turn i of the loop (worker-available and function-ready of worker i).
BaseNames == {<<"call">>, <<"small_obj_pool_shm">>, <<"call_sem">>}
WorkerNames(i) == {<<"avail", i>>, <<"func", i>>}

(* ------------------------------- Init --------------------------------- *)
Loc0 == [op |-> "", agent |-> NoAgent, msg |-> "", wid |-> NoWorker,
         cid |-> -1, tid |-> -1, cb |-> -1, idx |-> -1, ids |-> <<>>,
         ret |-> None, file |-> None, sent |-> <<>>, cnt |-> 0]

\* The processes and the names when SetupCppServer has returned: every
\* child forked, the global worker set.
InitServing ==
    /\ main = [st |-> "serving", num_workers |-> NumWorkers, cores |-> NumWorkers,
               inherited |-> FALSE, _num_workers |-> NumWorkers,
               i |-> NumWorkers, k |-> 0, via |-> "", sigint |-> FALSE]
    /\ child = [i \in Children |->
                  [st |-> IF i < NumWorkers THEN "run" ELSE "none",
                   sigint |-> FALSE, killed |-> FALSE]]
    /\ names = BaseNames \cup UNION {WorkerNames(i) : i \in Workers}
    /\ servicer = None

\* The parent right after Worker::Worker(): every call-id enqueued, every
\* semaphore 0, the children forked and not yet at their first sem_post.
Init ==
    /\ pc = [f \in Threads |-> "idle"]
    /\ loc = [f \in Threads |-> Loc0]
    /\ pool = [i \in 1 .. MaxCallId |-> i - 1]
    /\ sem = [c \in CallIds |-> 0]
    /\ avail = [w \in Workers |-> 0]
    /\ ready = [w \in Workers |-> 0]
    /\ cmd = [w \in Workers |-> NoCmd]
    /\ slot = [c \in CallIds |-> EmptySlot]
    /\ shm = [k \in {"args", "result"} \X CallIds |-> NoSeg]
    /\ map = [a \in AgentIds |-> NoWorker]
    /\ maplock = Free
    /\ agent_pool = [w \in Workers |-> {}]
    /\ readers = [w \in Workers |-> 0]
    /\ gil = [w \in Workers |-> NoHolder]
    /\ wstate = [w \in Workers |-> "forked"]
    /\ h = [c \in CallIds |-> None]
    /\ rr = [c \in CallIds |-> None]
    /\ tasks = <<>>
    /\ num_tasks = 0
    /\ tail = Free
    /\ headr = {}
    /\ helper = [t \in TaskIds |-> None]
    /\ now = 0
    /\ nclones = 0
    /\ nset = [c \in CallIds |-> 0]
    /\ written = [t \in TaskIds |-> None]
    /\ log = <<>>
    /\ InitServing

(* ------------------------ front-end: helpers -------------------------- *)
\* The parent process runs: no thread of it has faulted.
ParentAlive == \A f \in Threads : pc[f] /= "fault"

Goto(f, label) == pc' = [pc EXCEPT ![f] = label]
Finish(f, ok, message) ==
    /\ pc' = [pc EXCEPT ![f] = "done"]
    /\ loc' = [loc EXCEPT ![f].ret = [ok |-> ok, message |-> message]]

\* Faulty variant of get_worker_id_by_agent_id: an id the table does not
\* hold is answered with worker 0.
get_worker_id_by_agent_id_Zero(m, agent_id) ==
    IF m[agent_id] = NoWorker THEN 0 ELSE m[agent_id]
\* Faulty variant of get_worker_id_by_agent_id: no id is ever found.
get_worker_id_by_agent_id_Miss(m, agent_id) == NoWorker
\* get_worker_id_by_agent_id
get_worker_id_by_agent_id(m, agent_id) == m[agent_id]

\* The calls that go to every worker, one call-id per worker.
Broadcasts == {"delete_all", "list", "set_model_configs"}

\* The function id and the serialized arguments each call hands to
\* call_worker_func (args == nullptr: None).
FuncOf(l) ==
    CASE l.op = "create" -> create_agent
      [] l.op = "delete" -> delete_agent
      [] l.op = "delete_all" -> delete_all_agents
      [] l.op = "clone" -> clone_agent
      [] l.op = "list" -> get_agent_list
      [] l.op = "set_model_configs" -> set_model_configs
      [] l.op = "memory" -> get_agent_memory
      [] l.op = "reply" -> reply
      [] l.op = "observe" -> observe
ArgsOf(l) ==
    CASE l.op = "reply" -> ReplyArgsBytes(l.agent, l.msg, l.tid, l.cb)
      [] l.op = "observe" -> ObserveArgsBytes(l.agent, l.msg)
      [] l.op = "set_model_configs" -> ModelConfigsArgsBytes(l.msg)
      [] l.op \in Broadcasts -> None
      [] OTHER -> AgentArgsBytes(l.agent)

\* The front-end call returns to the RPC layer, which answers the client.
rpc_return(f) ==
    /\ pc[f] = "done"
    /\ pc' = [pc EXCEPT ![f] = "idle"]
    /\ loc' = [loc EXCEPT ![f] = Loc0]
    /\ UNCHANGED <<ipcVars, agentVars, taskVars, histVars, h, rr, now>>

(* ------------------- set_content and get_content --------------------- *)
\* set_content(prefix, call_id, content) by thread f.
set_content(f, prefix, c, content) ==
    /\ pc[f] = "idle"
    /\ ChannelFree(slot, shm, c)
    /\ slot' = set_content_slot(slot, c, content)
    /\ shm' = set_content_shm(shm, prefix, c, content)
    /\ Goto(f, "written")
    /\ loc' = [loc EXCEPT ![f] =
          [Loc0 EXCEPT !.op = "content", !.msg = prefix, !.cid = c,
                       !.ret = [written |-> content, read |-> None]]]
    /\ UNCHANGED <<pool, sem, avail, ready, cmd, agentVars, taskVars,
                   histVars, h, rr, now>>

\* get_content(prefix, call_id) by the thread that wrote.
get_content(f) ==
    /\ pc[f] = "written"
    /\ LET prefix == loc[f].msg
           c == loc[f].cid
       IN /\ loc' = [loc EXCEPT ![f].ret.read =
                         get_content_val(slot, shm, prefix, c)]
          /\ slot' = get_content_slot(slot, c)
          /\ shm' = get_content_shm(slot, shm, prefix, c)
    /\ Goto(f, "done")
    /\ UNCHANGED <<pool, sem, avail, ready, cmd, agentVars, taskVars,
                   histVars, h, rr, now>>

(* --------------------- front-end: call_worker_func -------------------- *)
\* Faulty variant of call_worker_func_wait: the sem_wait is left out.
call_worker_func_wait_Skip(f) ==
    /\ pc[f] = "avail"
    /\ Goto(f, "callid")
    /\ UNCHANGED <<loc, ipcVars, agentVars, taskVars, histVars, h, rr, now>>
\* if (need_wait) sem_wait(worker-available[worker_id])
call_worker_func_wait(f) ==
    /\ pc[f] = "avail"
    /\ avail[loc[f].wid] > 0
    /\ avail' = [avail EXCEPT ![loc[f].wid] = @ - 1]
    /\ Goto(f, "callid")
    /\ UNCHANGED <<loc, pool, sem, ready, cmd, slot, shm, agentVars, taskVars,
                   histVars, h, rr, now>>

\* Faulty variant of AfterPost: the loop of call_set_model_configs ends
\* after the first worker.
AfterPost_FirstWorkerOnly(l) ==
    CASE l.op = "delete" -> "erase"
      [] l.op = "delete_all" ->
            IF l.wid = NumWorkers - 1 THEN "clear" ELSE "avail"
      [] l.op = "list" ->
            IF l.wid = NumWorkers - 1 THEN "result" ELSE "avail"
      [] OTHER -> "result"
\* Where a call goes on after the function-ready post.
AfterPost(l) ==
    CASE l.op = "delete" -> "erase"
      [] l.op = "delete_all" ->
            IF l.wid = NumWorkers - 1 THEN "clear" ELSE "avail"
      [] l.op \in {"list", "set_model_configs"} ->
            IF l.wid = NumWorkers - 1 THEN "result" ELSE "avail"
      [] OTHER -> "result"

\* get_call_id, the command header, set_args_repr, sem_post(function-ready).
call_worker_func_post(f) ==
    /\ pc[f] = "callid"
    /\ CanGetCallId(pool)
    /\ LET c == FrontCallId(pool)
           l == loc[f]
           args == ArgsOf(l)
       IN /\ pool' = PopCallId(pool)
          /\ cmd' = [cmd EXCEPT ![l.wid] = [call_id |-> c, func |-> FuncOf(l)]]
          /\ slot' = IF args = None THEN slot ELSE set_content_slot(slot, c, args)
          /\ shm' = IF args = None THEN shm
                    ELSE set_content_shm(shm, "args", c, args)
          /\ ready' = [ready EXCEPT ![l.wid] = @ + 1]
          /\ nset' = [nset EXCEPT ![c] = 0]
          /\ loc' = [loc EXCEPT ![f] =
                IF l.op \in Broadcasts
                THEN [l EXCEPT !.ids = Append(l.ids, c),
                               !.wid = IF l.wid = NumWorkers - 1
                                       THEN l.wid ELSE l.wid + 1]
                ELSE [l EXCEPT !.cid = c]]
          /\ Goto(f, AfterPost(l))
    /\ UNCHANGED <<sem, avail, agentVars, taskVars, h, rr, now>>
    /\ UNCHANGED <<log, lifeVars, servicer>>

\* get_result(call_id): P on the completion semaphore, get_content of the
\* result, the id pushed back to the pool.  What the caller does with the
\* result depends on the call.
get_result(f) ==
    /\ pc[f] = "result"
    /\ LET l == loc[f]
           c == IF l.op \in Broadcasts THEN Head(l.ids) ELSE l.cid
           r == get_content_val(slot, shm, "result", c)
       IN /\ sem[c] > 0
          /\ sem' = [sem EXCEPT ![c] = @ - 1]
          /\ slot' = get_content_slot(slot, c)
          /\ shm' = get_content_shm(slot, shm, "result", c)
          /\ pool' = PushCallId(pool, c)
          /\ nset' = [nset EXCEPT ![c] = 0]
          /\ CASE l.op \in {"reply", "observe"} -> Finish(f, TRUE, r.v)
               [] l.op = "create" ->
                    IF r.n = 0
                    THEN /\ Goto(f, "insert")
                         /\ loc' = [loc EXCEPT ![f].ret =
                                       [ok |-> TRUE, message |-> r.v]]
                    ELSE Finish(f, FALSE, r.v)
               [] l.op = "clone" ->
                    /\ Goto(f, "insert")
                    /\ loc' = [loc EXCEPT ![f].ret =
                                  [ok |-> TRUE, message |-> r.v]]
               [] l.op = "delete" -> Finish(f, r.n = 0, r.v)
               [] l.op = "memory" -> Finish(f, r.v[2], r.v[3])
               [] l.op = "delete_all" ->
                    IF Len(l.ids) = 1
                    THEN /\ pc' = [pc EXCEPT ![f] = "done"]
                         /\ loc' = [loc EXCEPT ![f].ids = <<>>,
                                       ![f].ret = [ok |-> TRUE, message |-> ""]]
                    ELSE /\ loc' = [loc EXCEPT ![f].ids = Tail(l.ids)]
                         /\ UNCHANGED pc
               [] l.op = "list" ->
                    /\ loc' = [loc EXCEPT ![f].ids = Tail(l.ids),
                                  ![f].ret = [ok |-> TRUE,
                                      message |-> Append(l.ret.message, r.v[2])]]
                    /\ pc' = [pc EXCEPT ![f] =
                                 IF Len(l.ids) = 1 THEN "done" ELSE "result"]
               [] l.op = "set_model_configs" ->
                    /\ loc' = [loc EXCEPT ![f].ids = Tail(l.ids),
                                  ![f].ret = [ok |-> TRUE,
                                      message |-> Append(l.ret.message, r.v)]]
                    /\ pc' = [pc EXCEPT ![f] =
                                 IF Len(l.ids) = 1 THEN "done" ELSE "result"]
    /\ UNCHANGED <<avail, ready, cmd, agentVars, taskVars, h, rr, now>>
    /\ UNCHANGED <<log, lifeVars, servicer>>

(* ------------------------- front-end: reply --------------------------- *)
\* Replies that have passed the routing-table lookup and hold no task-id yet.
RepliesStarting == Cardinality({g \in Threads : pc[g] \in {"trim", "tail"}})

\* call_reply up to the call of get_task_id_and_callback_id.
call_reply(f, agent_id, message) ==
    /\ pc[f] = "idle"
    /\ maplock = Free
    /\ LET worker_id == get_worker_id_by_agent_id(map, agent_id)
       IN IF worker_id = NoWorker
          THEN /\ pc' = [pc EXCEPT ![f] = "done"]
               /\ loc' = [loc EXCEPT ![f] =
                     [Loc0 EXCEPT !.op = "reply", !.agent = agent_id,
                         !.ret = [ok |-> FALSE,
                                  message |-> <<"Try to reply a non-existent agent", agent_id>>]]]
          ELSE /\ num_tasks + RepliesStarting < MaxReplies
               /\ Goto(f, "trim")
               /\ loc' = [loc EXCEPT ![f] =
                     [Loc0 EXCEPT !.op = "reply", !.agent = agent_id,
                                  !.msg = message, !.wid = worker_id]]
    /\ UNCHANGED <<ipcVars, agentVars, taskVars, histVars, h, rr, now>>

\* get_task_id_and_callback_id: the head-trim.  try_lock on the head mutex
\* fails while an update_placeholder caller holds it shared.
get_task_id_and_callback_id_trim(f) ==
    /\ pc[f] = "trim"
    /\ tasks' = IF headr = {} THEN TrimLoop(tasks, now) ELSE tasks
    /\ Goto(f, "tail")
    /\ UNCHANGED <<loc, ipcVars, agentVars, num_tasks, tail, headr, helper,
                   written, histVars, h, rr, now>>

\* Faulty variant of get_task_id_and_callback_id_lock: the tail mutex is not
\* waited for.
get_task_id_and_callback_id_lock_NoMutex(f) ==
    /\ pc[f] = "tail"
    /\ tail' = f
    /\ loc' = [loc EXCEPT ![f].tid = num_tasks]
    /\ num_tasks' = num_tasks + 1
    /\ Goto(f, "cbid")
    /\ UNCHANGED <<ipcVars, agentVars, tasks, headr, helper, written,
                   histVars, h, rr, now>>
\* unique_lock lock(_tasks_tail_mutex); task_id = _num_tasks; _num_tasks++
get_task_id_and_callback_id_lock(f) ==
    /\ pc[f] = "tail"
    /\ tail = Free
    /\ tail' = f
    /\ loc' = [loc EXCEPT ![f].tid = num_tasks]
    /\ num_tasks' = num_tasks + 1
    /\ Goto(f, "cbid")
    /\ UNCHANGED <<ipcVars, agentVars, tasks, headr, helper, written,
                   histVars, h, rr, now>>

\* Faulty variant of NewTask: every task is created with id 0.
NewTask_IdZero(task_id, timestamp) ==
    [id |-> 0, ts |-> timestamp, result |-> EmptyStr, finished |-> FALSE]
\* The task as emplace_back creates it.
NewTask(task_id, timestamp) ==
    [id |-> task_id, ts |-> timestamp, result |-> EmptyStr, finished |-> FALSE]

\* callback_id = get_call_id() under the tail mutex, the timestamp, the
\* emplace_back, the unlock and the start of the helper thread.
get_task_id_and_callback_id_enqueue(f) ==
    /\ pc[f] = "cbid"
    /\ CanGetCallId(pool)
    /\ LET callback_id == FrontCallId(pool)
       IN /\ pool' = PopCallId(pool)
          /\ loc' = [loc EXCEPT ![f].cb = callback_id]
          /\ tasks' = Append(tasks, NewTask(loc[f].tid, now))
          /\ helper' = [helper EXCEPT ![loc[f].tid] =
                           [st |-> "run", cb |-> callback_id]]
          /\ nset' = [nset EXCEPT ![callback_id] = 0]
    /\ tail' = Free
    /\ Goto(f, "avail")
    /\ UNCHANGED <<sem, avail, ready, cmd, slot, shm, agentVars, num_tasks,
                   headr, written, h, rr, now>>
    /\ UNCHANGED <<log, lifeVars, servicer>>

\* The helper thread: task->_task_result = get_result(callback_id), then
\* the task mutex is taken and _task_finished set.
helper_get_result(t) ==
    /\ ParentAlive
    /\ helper[t] /= None
    /\ helper[t].st = "run"
    /\ LET c == helper[t].cb
           r == get_content_val(slot, shm, "result", c)
           i == PosOf(tasks, t)
       IN /\ sem[c] > 0
          /\ sem' = [sem EXCEPT ![c] = @ - 1]
          /\ slot' = get_content_slot(slot, c)
          /\ shm' = get_content_shm(slot, shm, "result", c)
          /\ pool' = PushCallId(pool, c)
          /\ nset' = [nset EXCEPT ![c] = 0]
          /\ tasks' = IF i = 0 THEN tasks
                      ELSE [tasks EXCEPT ![i].result = r, ![i].finished = TRUE]
    /\ helper' = [helper EXCEPT ![t].st = "fin"]
    /\ UNCHANGED <<pc, loc, avail, ready, cmd, agentVars, num_tasks, tail,
                   headr, written, h, rr, now>>
    /\ UNCHANGED <<log, lifeVars, servicer>>

\* The helper thread: notify_all, the task mutex released, the thread ends.
helper_exit(t) ==
    /\ ParentAlive
    /\ helper[t] /= None
    /\ helper[t].st = "fin"
    /\ helper' = [helper EXCEPT ![t] = None]
    /\ UNCHANGED <<pc, loc, ipcVars, agentVars, tasks, num_tasks, tail, headr,
                   written, histVars, h, rr, now>>

(* ------------------------ front-end: observe -------------------------- *)
\* call_observe up to call_worker_func.
call_observe(f, agent_id, message) ==
    /\ pc[f] = "idle"
    /\ maplock = Free
    /\ LET worker_id == get_worker_id_by_agent_id(map, agent_id)
       IN IF worker_id = NoWorker
          THEN /\ pc' = [pc EXCEPT ![f] = "done"]
               /\ loc' = [loc EXCEPT ![f] =
                     [Loc0 EXCEPT !.op = "observe", !.agent = agent_id,
                         !.ret = [ok |-> FALSE,
                                  message |-> <<"Try to observe a non-existent agent", agent_id>>]]]
          ELSE /\ Goto(f, "avail")
               /\ loc' = [loc EXCEPT ![f] =
                     [Loc0 EXCEPT !.op = "observe", !.agent = agent_id,
                                  !.msg = message, !.wid = worker_id]]
    /\ UNCHANGED <<ipcVars, agentVars, taskVars, histVars, h, rr, now>>

(* --------------------- front-end: get_agent_memory -------------------- *)
\* call_get_agent_memory up to call_worker_func.
call_get_agent_memory(f, agent_id) ==
    /\ pc[f] = "idle"
    /\ maplock = Free
    /\ LET worker_id == get_worker_id_by_agent_id(map, agent_id)
       IN IF worker_id = NoWorker
          THEN /\ pc' = [pc EXCEPT ![f] = "done"]
               /\ loc' = [loc EXCEPT ![f] =
                     [Loc0 EXCEPT !.op = "memory", !.agent = agent_id,
                         !.ret = [ok |-> FALSE,
                                  message |-> <<"Try to get memory of a non-existent agent", agent_id>>]]]
          ELSE /\ Goto(f, "avail")
               /\ loc' = [loc EXCEPT ![f] =
                     [Loc0 EXCEPT !.op = "memory", !.agent = agent_id,
                                  !.wid = worker_id]]
    /\ UNCHANGED <<ipcVars, agentVars, taskVars, histVars, h, rr, now>>

(* ---------------------- RPC layer: call_agent_func -------------------- *)
\* The values of target_func a client may send.
TargetFuncs == {"_reply", "_observe", "_step"}

\* RpcAgentServiceImpl::call_agent_func up to the return of the front-end
\* call it selects; an unsupported target_func is answered at once.
call_agent_func(f, target_func, agent_id, message) ==
    CASE target_func = "_reply" -> call_reply(f, agent_id, message)
      [] target_func = "_observe" -> call_observe(f, agent_id, message)
      [] OTHER ->
            /\ pc[f] = "idle"
            /\ pc' = [pc EXCEPT ![f] = "done"]
            /\ loc' = [loc EXCEPT ![f] =
                  [Loc0 EXCEPT !.op = "call_agent_func", !.agent = agent_id,
                      !.ret = [ok |-> FALSE,
                               message |-> <<"Unsupported method", target_func>>]]]
            /\ UNCHANGED <<ipcVars, agentVars, taskVars, histVars, h, rr, now>>

\* Faulty variant of RpcAnswer: every call is answered with Status::OK and
\* ok = true.
RpcAnswer_AlwaysOk(l) == [status |-> "OK", ok |-> TRUE, message |-> l.ret.message]
\* What the RPC method answers with the pair (or string) its front-end call
\* returned: call_agent_func turns a failure into the status
\* INVALID_ARGUMENT, with no response; get_agent_list always sets ok; the
\* other methods answer Status::OK and put the outcome in ok.
RpcAnswer(l) ==
    CASE l.op \in {"reply", "observe", "call_agent_func"} ->
            IF l.ret.ok
            THEN [status |-> "OK", ok |-> TRUE, message |-> l.ret.message]
            ELSE [status |-> "INVALID_ARGUMENT", ok |-> FALSE,
                  message |-> l.ret.message]
      [] l.op = "list" ->
            [status |-> "OK", ok |-> TRUE, message |-> l.ret.message]
      [] OTHER ->
            [status |-> "OK", ok |-> l.ret.ok, message |-> l.ret.message]

\* The RPC method returns to the sequential client, which records the call
\* and the answer.
client_return(f) ==
    /\ pc[f] = "done"
    /\ pc' = [pc EXCEPT ![f] = "idle"]
    /\ loc' = [loc EXCEPT ![f] = Loc0]
    /\ log' = Append(log, [op |-> loc[f].op, agent |-> loc[f].agent,
                           ret |-> loc[f].ret, answer |-> RpcAnswer(loc[f])])
    /\ UNCHANGED <<ipcVars, agentVars, taskVars, nset, h, rr, now, lifeVars, servicer>>

(* ---------------------- RPC layer: download_file --------------------- *)
\* The buffer of download_file and read_size: 1024 * 1024 bytes.
BufferSize == 1024 * 1024
\* File sizes on both sides of the buffer size, the empty file, whole
\* multiples of the buffer size and three buffers and a half.
FileSizes ==
    {0, 1, BufferSize, BufferSize + 1, 2 * BufferSize,
     3 * BufferSize + BufferSize \div 2}
\* What request->value() can name: no file, a file that cannot be opened,
\* a file of one of the sizes.  The content of a file is its bytes 0 ..
\* size - 1; a run of bytes is given by its first offset and its length.
Files ==
    {[exists |-> FALSE, opens |-> FALSE, size |-> 0],
     [exists |-> TRUE, opens |-> FALSE, size |-> 0]}
    \cup {[exists |-> TRUE, opens |-> TRUE, size |-> n] : n \in FileSizes}

\* file.read(buffer, read_size) at offset pos of a file of that size, with
\* no I/O error: gcount() bytes are extracted, and eofbit is set when the
\* end was met before read_size bytes were.
istream_read(size, pos) ==
    [gcount |-> IF size - pos < BufferSize THEN size - pos ELSE BufferSize,
     eof |-> size - pos < BufferSize]

\* Faulty variant of PieceData: the whole buffer is sent.
PieceData_WholeBuffer(pos, gcount) == [from |-> pos, n |-> BufferSize]
\* std::string(buffer.get(), file.gcount()): the bytes just read.
PieceData(pos, gcount) == [from |-> pos, n |-> gcount]

\* The Status download_file returns.
DownloadEnds(f, status) ==
    /\ pc' = [pc EXCEPT ![f] = "done"]
    /\ loc' = [loc EXCEPT ![f].ret = [ok |-> status = "OK", message |-> status]]

\* download_file up to the loop: the existence test and the open.
download_file(f, file) ==
    /\ pc[f] = "idle"
    /\ IF file.exists /\ file.opens
       THEN /\ Goto(f, "read")
            /\ loc' = [loc EXCEPT ![f] =
                  [Loc0 EXCEPT !.op = "download",
                               !.file = [size |-> file.size, pos |-> 0]]]
       ELSE /\ Goto(f, "done")
            /\ loc' = [loc EXCEPT ![f] =
                  [Loc0 EXCEPT !.op = "download",
                      !.ret = [ok |-> FALSE, message |-> "NOT_FOUND"]]]
    /\ UNCHANGED <<ipcVars, agentVars, taskVars, histVars, h, rr, now>>

\* One turn of the loop: file.read, which may fail; the piece written to
\* the stream, which may fail; the return when eofbit is set.
download_file_loop(f, read_error, write_ok) ==
    /\ pc[f] = "read"
    /\ LET file == loc[f].file
           r == istream_read(file.size, file.pos)
       IN IF read_error
          THEN DownloadEnds(f, "INTERNAL")
          ELSE IF ~write_ok
          THEN DownloadEnds(f, "ABORTED")
          ELSE /\ loc' = [loc EXCEPT
                     ![f].sent = Append(@, PieceData(file.pos, r.gcount)),
                     ![f].file.pos = @ + r.gcount,
                     ![f].ret = IF r.eof
                                THEN [ok |-> TRUE, message |-> "OK"]
                                ELSE None]
               /\ pc' = [pc EXCEPT ![f] = IF r.eof THEN "done" ELSE "read"]
    /\ UNCHANGED <<ipcVars, agentVars, taskVars, histVars, h, rr, now>>

(* ------------------- front-end: agent life cycle ---------------------- *)
\* call_create_agent up to find_avail_worker_id.
call_create_agent(f, agent_id) ==
    /\ pc[f] = "idle"
    /\ maplock = Free
    /\ IF get_worker_id_by_agent_id(map, agent_id) /= NoWorker
       THEN /\ pc' = [pc EXCEPT ![f] = "done"]
            /\ loc' = [loc EXCEPT ![f] =
                  [Loc0 EXCEPT !.op = "create", !.agent = agent_id,
                      !.ret = [ok |-> FALSE,
                               message |-> <<"already exists", agent_id>>]]]
       ELSE /\ Goto(f, "find")
            /\ loc' = [loc EXCEPT ![f] =
                  [Loc0 EXCEPT !.op = "create", !.agent = agent_id]]
    /\ UNCHANGED <<ipcVars, agentVars, taskVars, histVars, h, rr, now>>

\* Faulty variant of find_avail_worker_id_probe: the index is returned
\* without the semaphore being taken.
find_avail_worker_id_probe_NoConsume(f) ==
    /\ pc[f] = "find"
    /\ \E i \in Workers :
          /\ avail[i] > 0
          /\ loc' = [loc EXCEPT ![f].wid = i]
    /\ Goto(f, "callid")
    /\ UNCHANGED <<ipcVars, agentVars, taskVars, histVars, h, rr, now>>
\* find_avail_worker_id: a probe sem_trywait(worker-available[i]) succeeds.
find_avail_worker_id_probe(f) ==
    /\ pc[f] = "find"
    /\ \E i \in Workers :
          /\ avail[i] > 0
          /\ avail' = [avail EXCEPT ![i] = @ - 1]
          /\ loc' = [loc EXCEPT ![f].wid = i]
    /\ Goto(f, "callid")
    /\ UNCHANGED <<pool, sem, ready, cmd, slot, shm, agentVars, taskVars,
                   histVars, h, rr, now>>

\* find_avail_worker_id: the probes are used up (each found its semaphore
\* at 0, the last one on worker i) and the thread falls back to sem_wait on
\* worker i.
find_avail_worker_id_fallback(f) ==
    /\ pc[f] = "find"
    /\ \E i \in Workers :
          /\ avail[i] = 0
          /\ loc' = [loc EXCEPT ![f].wid = i]
    /\ Goto(f, "avail")
    /\ UNCHANGED <<ipcVars, agentVars, taskVars, histVars, h, rr, now>>

\* find_avail_worker_id followed probe by probe: cnt < 4 * _num_workers,
\* i = dis(gen), sem_trywait(worker-available[i]); the index is returned
\* when the probe succeeds, else cnt++.
MaxProbes == 4 * NumWorkers
\* Faulty variant of find_avail_worker_id_trywait: the index is returned
\* whether the probe succeeded or not.
find_avail_worker_id_trywait_AnyResult(f, i) ==
    /\ pc[f] = "find"
    /\ loc[f].cnt < MaxProbes
    /\ avail' = IF avail[i] > 0 THEN [avail EXCEPT ![i] = @ - 1] ELSE avail
    /\ loc' = [loc EXCEPT ![f].wid = i]
    /\ Goto(f, "callid")
    /\ UNCHANGED <<pool, sem, ready, cmd, slot, shm, agentVars, taskVars,
                   histVars, h, rr, now>>
find_avail_worker_id_trywait(f, i) ==
    /\ pc[f] = "find"
    /\ loc[f].cnt < MaxProbes
    /\ IF avail[i] > 0
       THEN /\ avail' = [avail EXCEPT ![i] = @ - 1]
            /\ loc' = [loc EXCEPT ![f].wid = i]
            /\ Goto(f, "callid")
       ELSE /\ loc' = [loc EXCEPT ![f].wid = i, ![f].cnt = @ + 1]
            /\ UNCHANGED <<avail, pc>>
    /\ UNCHANGED <<pool, sem, ready, cmd, slot, shm, agentVars, taskVars,
                   histVars, h, rr, now>>

\* find_avail_worker_id after the loop: sem_wait(worker-available[i]) on the
\* index of the last probe.
find_avail_worker_id_wait(f) ==
    /\ pc[f] = "find"
    /\ loc[f].cnt = MaxProbes
    /\ avail[loc[f].wid] > 0
    /\ avail' = [avail EXCEPT ![loc[f].wid] = @ - 1]
    /\ Goto(f, "callid")
    /\ UNCHANGED <<loc, pool, sem, ready, cmd, slot, shm, agentVars, taskVars,
                   histVars, h, rr, now>>

\* call_get_agent_list holds _agent_id_map_mutex shared while it hands its
\* command to every worker.
ListBroadcasting ==
    {g \in Threads : loc[g].op = "list" /\ pc[g] \in {"avail", "callid"}}
\* unique_lock on _agent_id_map_mutex: no exclusive and no shared holder.
CanLockMap == maplock = Free /\ ListBroadcasting = {}

\* unordered_map::insert: an id that is present keeps its worker.
MapInsert(m, agent_id, worker_id) ==
    IF m[agent_id] = NoWorker THEN [m EXCEPT ![agent_id] = worker_id] ELSE m

\* Faulty variant of agent_id_map_insert: a clone is entered under the id of
\* the agent it was made from.
agent_id_map_insert_Source(f) ==
    /\ pc[f] = "insert"
    /\ CanLockMap
    /\ map' = MapInsert(map, loc[f].agent, loc[f].wid)
    /\ Goto(f, "done")
    /\ UNCHANGED <<loc, ipcVars, maplock, agent_pool, readers, gil, wstate,
                   nclones, taskVars, histVars, h, rr, now>>
\* call_create_agent, call_clone_agent: the id inserted in the routing
\* table under the exclusive lock.
agent_id_map_insert(f) ==
    /\ pc[f] = "insert"
    /\ CanLockMap
    /\ LET l == loc[f]
           id == IF l.op = "clone" THEN l.ret.message[2] ELSE l.agent
       IN map' = MapInsert(map, id, l.wid)
    /\ Goto(f, "done")
    /\ UNCHANGED <<loc, ipcVars, maplock, agent_pool, readers, gil, wstate,
                   nclones, taskVars, histVars, h, rr, now>>

\* call_delete_agent up to call_worker_func.
call_delete_agent(f, agent_id) ==
    /\ pc[f] = "idle"
    /\ maplock = Free
    /\ LET worker_id == get_worker_id_by_agent_id(map, agent_id)
       IN IF worker_id = NoWorker
          THEN /\ pc' = [pc EXCEPT ![f] = "done"]
               /\ loc' = [loc EXCEPT ![f] =
                     [Loc0 EXCEPT !.op = "delete", !.agent = agent_id,
                         !.ret = [ok |-> FALSE,
                                  message |-> <<"Try to delete a non-existent agent", agent_id>>]]]
          ELSE /\ Goto(f, "avail")
               /\ loc' = [loc EXCEPT ![f] =
                     [Loc0 EXCEPT !.op = "delete", !.agent = agent_id,
                                  !.wid = worker_id]]
    /\ UNCHANGED <<ipcVars, agentVars, taskVars, histVars, h, rr, now>>

\* Faulty variant of call_delete_agent_erase: the id stays in the table.
call_delete_agent_NoErase(f) ==
    /\ pc[f] = "erase"
    /\ CanLockMap
    /\ Goto(f, "result")
    /\ UNCHANGED <<loc, ipcVars, agentVars, taskVars, histVars, h, rr, now>>
\* call_delete_agent: _agent_id_map.erase under the exclusive lock, after
\* the command was posted and before its result is awaited.
call_delete_agent_erase(f) ==
    /\ pc[f] = "erase"
    /\ CanLockMap
    /\ map' = [map EXCEPT ![loc[f].agent] = NoWorker]
    /\ Goto(f, "result")
    /\ UNCHANGED <<loc, ipcVars, maplock, agent_pool, readers, gil, wstate,
                   nclones, taskVars, histVars, h, rr, now>>

\* call_delete_all_agents: the exclusive lock on the routing table, kept
\* over the broadcast.
call_delete_all_agents(f) ==
    /\ pc[f] = "idle"
    /\ CanLockMap
    /\ maplock' = f
    /\ Goto(f, "avail")
    /\ loc' = [loc EXCEPT ![f] = [Loc0 EXCEPT !.op = "delete_all", !.wid = 0]]
    /\ UNCHANGED <<ipcVars, map, agent_pool, readers, gil, wstate, nclones,
                   taskVars, histVars, h, rr, now>>

\* call_delete_all_agents: _agent_id_map.clear() and the lock released.
call_delete_all_agents_clear(f) ==
    /\ pc[f] = "clear"
    /\ map' = [a \in AgentIds |-> NoWorker]
    /\ maplock' = Free
    /\ Goto(f, "result")
    /\ UNCHANGED <<loc, ipcVars, agent_pool, readers, gil, wstate, nclones,
                   taskVars, histVars, h, rr, now>>

\* call_get_agent_list: the shared lock on the routing table, kept over the
\* broadcast; the parts of the answer are collected in worker order.
call_get_agent_list(f) ==
    /\ pc[f] = "idle"
    /\ maplock = Free
    /\ Goto(f, "avail")
    /\ loc' = [loc EXCEPT ![f] =
          [Loc0 EXCEPT !.op = "list", !.wid = 0,
                       !.ret = [ok |-> TRUE, message |-> <<>>]]]
    /\ UNCHANGED <<ipcVars, agentVars, taskVars, histVars, h, rr, now>>

\* call_set_model_configs: the command goes to every worker, in worker
\* order; final_result collects the results in that order.
call_set_model_configs(f, model_configs) ==
    /\ pc[f] = "idle"
    /\ Goto(f, "avail")
    /\ loc' = [loc EXCEPT ![f] =
          [Loc0 EXCEPT !.op = "set_model_configs", !.msg = model_configs,
                       !.wid = 0, !.ret = [ok |-> TRUE, message |-> <<>>]]]
    /\ UNCHANGED <<ipcVars, agentVars, taskVars, histVars, h, rr, now>>

\* Clones that were asked for and not yet constructed.
ClonePending(g) ==
    /\ loc[g].op = "clone"
    /\ \/ pc[g] \in {"avail", "callid"}
       \/ /\ pc[g] = "result"
          /\ IF h[loc[g].cid] = None
             THEN sem[loc[g].cid] = 0
             ELSE h[loc[g].cid].st = "new"
ClonesStarting == Cardinality({g \in Threads : ClonePending(g)})

\* call_clone_agent up to call_worker_func.
call_clone_agent(f, agent_id) ==
    /\ pc[f] = "idle"
    /\ maplock = Free
    /\ LET worker_id == get_worker_id_by_agent_id(map, agent_id)
       IN IF worker_id = NoWorker
          THEN /\ pc' = [pc EXCEPT ![f] = "done"]
               /\ loc' = [loc EXCEPT ![f] =
                     [Loc0 EXCEPT !.op = "clone", !.agent = agent_id,
                         !.ret = [ok |-> FALSE,
                                  message |-> <<"Try to clone a non-existent agent", agent_id>>]]]
          ELSE /\ nclones + ClonesStarting < MaxClones
               /\ Goto(f, "avail")
               /\ loc' = [loc EXCEPT ![f] =
                     [Loc0 EXCEPT !.op = "clone", !.agent = agent_id,
                                  !.wid = worker_id]]
    /\ UNCHANGED <<ipcVars, agentVars, taskVars, histVars, h, rr, now>>

(* -------------------- front-end: update_placeholder ------------------- *)
\* call_update_placeholder / get_task_result up to the wait on the task.
\* The shared lock on the head mutex is kept while the caller waits.
\* _tasks.front() of an empty deque reads storage that holds no task: the
\* size is 0, so whatever id is read the range test fails, unless the read
\* goes through a null or stale pointer and the parent process faults.
call_update_placeholder(f, task_id) ==
    /\ pc[f] = "idle"
    /\ IF tasks = <<>>
       THEN /\ \/ Finish(f, FALSE, <<"Task not exists", task_id>>)
               \/ /\ pc' = [g \in Threads |-> "fault"]
                  /\ UNCHANGED loc
            /\ UNCHANGED headr
       ELSE LET idx == TaskIndex(tasks, task_id)
            IN IF InRange(idx, tasks)
               THEN /\ headr' = headr \cup {f}
                    /\ Goto(f, "wait")
                    /\ loc' = [loc EXCEPT ![f] =
                          [Loc0 EXCEPT !.op = "update", !.tid = task_id,
                                       !.idx = idx]]
               ELSE /\ Finish(f, FALSE, <<"Task not exists", task_id>>)
                    /\ UNCHANGED headr
    /\ UNCHANGED <<ipcVars, agentVars, tasks, num_tasks, tail, helper, written,
                   histVars, h, rr, now>>

\* What get_task_result and call_update_placeholder make of the stored
\* bytes: MsgReturn{ok, message} parsed from them (an empty string parses
\* to ok = false, message = ""); an empty message with ok = false is
\* answered as "Task [id] not exists.".
PlaceholderAnswer(task_id, bytes) ==
    IF bytes.n = 0
    THEN [ok |-> FALSE, message |-> <<"Task not exists", task_id>>]
    ELSE LET ok == bytes.v[2]
             message == <<"reply", bytes.v[3], bytes.v[4]>>
         IN IF ~ok /\ bytes.v[4] = ""
            THEN [ok |-> FALSE, message |-> <<"Task not exists", task_id>>]
            ELSE [ok |-> ok, message |-> message]

\* Faulty variant of Task_get_result_ready: the result is returned without
\* the wait on _task_cv.
Task_get_result_NoWait(task, hp) == TRUE
\* Task::get_result: the wait on _task_cv under _task_mutex ends when
\* _task_finished is set and the helper thread (hp) has left the mutex.
Task_get_result_ready(task, hp) == task.finished /\ hp = None

\* Task::get_result returns; the shared lock on the head mutex is released
\* on return from get_task_result.
get_task_result_return(f) ==
    /\ pc[f] = "wait"
    /\ LET task == tasks[loc[f].idx + 1]
       IN /\ Task_get_result_ready(task, helper[task.id])
          /\ loc' = [loc EXCEPT ![f].ret =
                        PlaceholderAnswer(loc[f].tid, task.result)]
    /\ headr' = headr \ {f}
    /\ Goto(f, "done")
    /\ UNCHANGED <<ipcVars, agentVars, tasks, num_tasks, tail, helper, written,
                   histVars, h, rr, now>>

\* One second passes.
Tick ==
    /\ now < MaxTime
    /\ now' = now + 1
    /\ UNCHANGED <<pc, loc, ipcVars, agentVars, taskVars, histVars, h, rr>>

(* ---------------------- worker child: main loop ----------------------- *)
\* The child's first sem_post(worker_avail_sem), before its loop.
worker_start(w) ==
    /\ wstate[w] = "forked"
    /\ wstate' = [wstate EXCEPT ![w] = "serving"]
    /\ avail' = [avail EXCEPT ![w] = @ + 1]
    /\ UNCHANGED <<pc, loc, pool, sem, ready, cmd, slot, shm, map, maplock,
                   agent_pool, readers, gil, nclones, taskVars, histVars, h,
                   rr, now>>

NewHandler(w, function_id) ==
    [st |-> "new", w |-> w, fn |-> function_id, agent |-> NoAgent,
     clone |-> NoAgent]

\* Faulty variant of worker_loop: worker-available is posted only when the
\* child runs no reply.
worker_loop_WaitsForReply(w) ==
    /\ wstate[w] = "serving"
    /\ ready[w] > 0
    /\ ready' = [ready EXCEPT ![w] = @ - 1]
    /\ h' = [h EXCEPT ![cmd[w].call_id] = NewHandler(w, cmd[w].func)]
    /\ cmd' = [cmd EXCEPT ![w] = NoCmd]
    /\ avail' = IF \E cb \in CallIds : rr[cb] /= None /\ rr[cb].w = w
                THEN avail ELSE [avail EXCEPT ![w] = @ + 1]
    /\ UNCHANGED <<pc, loc, pool, sem, slot, shm, agentVars, taskVars,
                   histVars, rr, now>>
\* One turn of the loop: sem_wait(func_ready_sem), the (call_id,
\* function_id) pair read from the command slot, the handler thread
\* started and detached, sem_post(worker_avail_sem).
worker_loop(w) ==
    /\ wstate[w] = "serving"
    /\ ready[w] > 0
    /\ ready' = [ready EXCEPT ![w] = @ - 1]
    /\ h' = [h EXCEPT ![cmd[w].call_id] = NewHandler(w, cmd[w].func)]
    /\ cmd' = [cmd EXCEPT ![w] = NoCmd]
    /\ avail' = [avail EXCEPT ![w] = @ + 1]
    /\ UNCHANGED <<pc, loc, pool, sem, slot, shm, agentVars, taskVars,
                   histVars, rr, now>>

\* A handler thread of function fn that stands at state st.
HandlerAt(c, fn, st) ==
    /\ h[c] /= None
    /\ h[c].fn = fn
    /\ h[c].st = st
    /\ wstate[h[c].w] = "serving"

\* Faulty variant of SetResult: V is executed twice.
SetResult_Twice(sl, sh, c, result) ==
    /\ slot' = set_content_slot(sl, c, result)
    /\ shm' = set_content_shm(sh, "result", c, result)
    /\ sem' = [sem EXCEPT ![c] = @ + 2]
    /\ nset' = [nset EXCEPT ![c] = @ + 2]
\* Faulty variant of SetResult: V without the set_content before it.
SetResult_PostOnly(sl, sh, c, result) ==
    /\ slot' = sl
    /\ shm' = sh
    /\ sem' = [sem EXCEPT ![c] = @ + 1]
    /\ nset' = [nset EXCEPT ![c] = @ + 1]
\* set_result(call_id, result) by a handler on its own call-id: the payload
\* written from the channel state (sl, sh), then V on the semaphore.
SetResult(sl, sh, c, result) ==
    /\ slot' = set_content_slot(sl, c, result)
    /\ shm' = set_content_shm(sh, "result", c, result)
    /\ sem' = [sem EXCEPT ![c] = @ + 1]
    /\ nset' = [nset EXCEPT ![c] = @ + 1]

\* Faulty variant of HandlerReadsArgs: the args are read and the occupied
\* flag of the slot is left set.
HandlerReadsArgs_Peek(c, fn) ==
    /\ HandlerAt(c, fn, "new")
    /\ gil[h[c].w] = NoHolder
    /\ gil' = [gil EXCEPT ![h[c].w] = <<"h", c>>]
    /\ slot' = slot
    /\ shm' = get_content_shm(slot, shm, "args", c)
    /\ h' = [h EXCEPT ![c].st = "run",
                      ![c].agent = get_content_val(slot, shm, "args", c).v[2]]
\* get_args_repr(call_id) and py::gil_scoped_acquire, the first steps of a
\* handler that takes arguments.
HandlerReadsArgs(c, fn) ==
    /\ HandlerAt(c, fn, "new")
    /\ gil[h[c].w] = NoHolder
    /\ gil' = [gil EXCEPT ![h[c].w] = <<"h", c>>]
    /\ slot' = get_content_slot(slot, c)
    /\ shm' = get_content_shm(slot, shm, "args", c)
    /\ h' = [h EXCEPT ![c].st = "run",
                      ![c].agent = get_content_val(slot, shm, "args", c).v[2]]

\* The handler returns: the interpreter guard is released, the thread ends.
HandlerEnds(c) ==
    /\ gil' = [gil EXCEPT ![h[c].w] = NoHolder]
    /\ h' = [h EXCEPT ![c] = None]

\* A null py::object is dereferenced (the id was not in _agent_pool): the
\* child dies on the fault; nothing it held is released.
WorkerDies(w) == wstate' = [wstate EXCEPT ![w] = "dead"]

(* ----------------------- worker child: handlers ----------------------- *)
create_agent_worker_begin(c) ==
    /\ HandlerReadsArgs(c, create_agent)
    /\ UNCHANGED <<pc, loc, pool, sem, avail, ready, cmd, map, maplock,
                   agent_pool, readers, wstate, nclones, taskVars, histVars,
                   rr, now>>

\* The agent host's create_agent returns (agent, error_msg); the agent is
\* inserted under the exclusive pool lock when the message is empty.
create_agent_worker_end(c, failed) ==
    /\ HandlerAt(c, create_agent, "run")
    /\ LET w == h[c].w
       IN IF failed
          THEN /\ SetResult(slot, shm, c, ErrorBytes(h[c].agent))
               /\ UNCHANGED agent_pool
          ELSE /\ readers[w] = 0
               /\ agent_pool' = [agent_pool EXCEPT ![w] = @ \cup {h[c].agent}]
               /\ SetResult(slot, shm, c, EmptyStr)
    /\ HandlerEnds(c)
    /\ UNCHANGED <<pc, loc, pool, avail, ready, cmd, map, maplock, readers,
                   wstate, nclones, taskVars, rr, now>>
    /\ UNCHANGED <<log, lifeVars, servicer>>

delete_agent_worker_begin(c) ==
    /\ HandlerReadsArgs(c, delete_agent)
    /\ UNCHANGED <<pc, loc, pool, sem, avail, ready, cmd, map, maplock,
                   agent_pool, readers, wstate, nclones, taskVars, histVars,
                   rr, now>>

\* unique_lock on the pool, __del__ of _agent_pool[agent_id], erase.
delete_agent_worker_end(c) ==
    /\ HandlerAt(c, delete_agent, "run")
    /\ readers[h[c].w] = 0
    /\ LET w == h[c].w
       IN IF h[c].agent \in agent_pool[w]
          THEN /\ agent_pool' = [agent_pool EXCEPT ![w] = @ \ {h[c].agent}]
               /\ SetResult(slot, shm, c, EmptyStr)
               /\ HandlerEnds(c)
               /\ UNCHANGED wstate
          ELSE /\ WorkerDies(w)
               /\ UNCHANGED <<agent_pool, slot, shm, sem, nset, gil, h>>
    /\ UNCHANGED <<pc, loc, pool, avail, ready, cmd, map, maplock, readers,
                   nclones, taskVars, rr, now>>
    /\ UNCHANGED <<log, lifeVars, servicer>>

\* delete_all_agents_worker takes no arguments: the interpreter guard only.
delete_all_agents_worker_begin(c) ==
    /\ HandlerAt(c, delete_all_agents, "new")
    /\ gil[h[c].w] = NoHolder
    /\ gil' = [gil EXCEPT ![h[c].w] = <<"h", c>>]
    /\ h' = [h EXCEPT ![c].st = "run"]
    /\ UNCHANGED <<pc, loc, ipcVars, map, maplock, agent_pool, readers,
                   wstate, nclones, taskVars, histVars, rr, now>>

\* Faulty variant of delete_all_agents_worker_end: the pool is not cleared.
delete_all_agents_worker_Keep(c) ==
    /\ HandlerAt(c, delete_all_agents, "run")
    /\ readers[h[c].w] = 0
    /\ SetResult(slot, shm, c, EmptyStr)
    /\ HandlerEnds(c)
    /\ UNCHANGED <<pc, loc, pool, avail, ready, cmd, map, maplock, agent_pool,
                   readers, wstate, nclones, taskVars, rr, now, log, lifeVars, servicer>>
\* _agent_pool.clear() under the exclusive pool lock, set_result(call_id, "").
delete_all_agents_worker_end(c) ==
    /\ HandlerAt(c, delete_all_agents, "run")
    /\ readers[h[c].w] = 0
    /\ agent_pool' = [agent_pool EXCEPT ![h[c].w] = {}]
    /\ SetResult(slot, shm, c, EmptyStr)
    /\ HandlerEnds(c)
    /\ UNCHANGED <<pc, loc, pool, avail, ready, cmd, map, maplock, readers,
                   wstate, nclones, taskVars, rr, now>>
    /\ UNCHANGED <<log, lifeVars, servicer>>

\* get_agent_list_worker: under the interpreter guard and the shared pool
\* lock the string of every agent of the pool is collected (an agent is
\* shown by its id).  No other thread of the child changes the pool while
\* the guard is held, so the handler is one step.
get_agent_list_worker(c) ==
    /\ HandlerAt(c, get_agent_list, "new")
    /\ gil[h[c].w] = NoHolder
    /\ SetResult(slot, shm, c, AgentListBytes(agent_pool[h[c].w]))
    /\ h' = [h EXCEPT ![c] = None]
    /\ UNCHANGED <<pc, loc, pool, avail, ready, cmd, agentVars, taskVars,
                   rr, now>>
    /\ UNCHANGED <<log, lifeVars, servicer>>

\* set_model_configs_worker: get_args_repr, the interpreter guard taken,
\* load_model_configs, set_result(call_id, "").  The handler touches no
\* state of the child but the guard, so it is one step.
set_model_configs_worker(c) ==
    /\ HandlerAt(c, set_model_configs, "new")
    /\ gil[h[c].w] = NoHolder
    /\ SetResult(get_content_slot(slot, c),
                 get_content_shm(slot, shm, "args", c), c, EmptyStr)
    /\ h' = [h EXCEPT ![c] = None]
    /\ UNCHANGED <<pc, loc, pool, avail, ready, cmd, agentVars, taskVars,
                   rr, now, log, lifeVars, servicer>>

\* clone_agent_worker up to the construction of the clone: the agent is
\* read under the shared pool lock and the clone gets a fresh id.
clone_agent_worker_begin(c) ==
    /\ HandlerAt(c, clone_agent, "new")
    /\ gil[h[c].w] = NoHolder
    /\ LET w == h[c].w
           agent_id == get_content_val(slot, shm, "args", c).v[2]
       IN /\ slot' = get_content_slot(slot, c)
          /\ shm' = get_content_shm(slot, shm, "args", c)
          /\ gil' = [gil EXCEPT ![w] = <<"h", c>>]
          /\ IF agent_id \in agent_pool[w]
             THEN /\ h' = [h EXCEPT ![c].st = "run", ![c].agent = agent_id,
                                    ![c].clone = CloneId(nclones + 1)]
                  /\ nclones' = nclones + 1
                  /\ UNCHANGED wstate
             ELSE /\ WorkerDies(w)
                  /\ h' = [h EXCEPT ![c].st = "run", ![c].agent = agent_id]
                  /\ UNCHANGED nclones
    /\ UNCHANGED <<pc, loc, pool, sem, avail, ready, cmd, map, maplock,
                   agent_pool, readers, taskVars, histVars, rr, now>>

\* The clone inserted under the exclusive pool lock; its id is the result.
clone_agent_worker_end(c) ==
    /\ HandlerAt(c, clone_agent, "run")
    /\ readers[h[c].w] = 0
    /\ agent_pool' = [agent_pool EXCEPT ![h[c].w] = @ \cup {h[c].clone}]
    /\ SetResult(slot, shm, c, AgentIdBytes(h[c].clone))
    /\ HandlerEnds(c)
    /\ UNCHANGED <<pc, loc, pool, avail, ready, cmd, map, maplock, readers,
                   wstate, nclones, taskVars, rr, now>>
    /\ UNCHANGED <<log, lifeVars, servicer>>

\* observe_worker up to the agent's observe: the args read, the
\* interpreter guard and the shared pool lock taken.
observe_worker_begin(c) ==
    /\ HandlerReadsArgs(c, observe)
    /\ readers' = [readers EXCEPT ![h[c].w] = @ + 1]
    /\ UNCHANGED <<pc, loc, pool, sem, avail, ready, cmd, map, maplock,
                   agent_pool, wstate, nclones, taskVars, histVars, rr, now>>

\* agent.observe(messages) on _agent_pool[agent_id], set_result(call_id, ""),
\* the lock and the guard released.
observe_worker_end(c) ==
    /\ HandlerAt(c, observe, "run")
    /\ LET w == h[c].w
       IN IF h[c].agent \in agent_pool[w]
          THEN /\ SetResult(slot, shm, c, EmptyStr)
               /\ readers' = [readers EXCEPT ![w] = @ - 1]
               /\ HandlerEnds(c)
               /\ UNCHANGED wstate
          ELSE /\ WorkerDies(w)
               /\ UNCHANGED <<slot, shm, sem, nset, readers, gil, h>>
    /\ UNCHANGED <<pc, loc, pool, avail, ready, cmd, map, maplock, agent_pool,
                   nclones, taskVars, rr, now, log, lifeVars, servicer>>

\* The memories an agent may hold, serialized: none (is_none), a short one
\* and one longer than the small-object slot.
Memories == {""} \cup Msgs

\* get_agent_memory_worker up to the read of the agent's memory: the args
\* read, the interpreter guard and the shared pool lock taken.
get_agent_memory_worker_begin(c) ==
    /\ HandlerReadsArgs(c, get_agent_memory)
    /\ readers' = [readers EXCEPT ![h[c].w] = @ + 1]
    /\ UNCHANGED <<pc, loc, pool, sem, avail, ready, cmd, map, maplock,
                   agent_pool, wstate, nclones, taskVars, histVars, rr, now>>

\* agent.attr("memory") on _agent_pool[agent_id], the MsgReturn built and
\* set as the result, the lock and the guard released.
get_agent_memory_worker_end(c, memory) ==
    /\ HandlerAt(c, get_agent_memory, "run")
    /\ LET w == h[c].w
       IN IF h[c].agent \in agent_pool[w]
          THEN /\ SetResult(slot, shm, c, MemoryReturnBytes(h[c].agent, memory))
               /\ readers' = [readers EXCEPT ![w] = @ - 1]
               /\ HandlerEnds(c)
               /\ UNCHANGED wstate
          ELSE /\ WorkerDies(w)
               /\ UNCHANGED <<slot, shm, sem, nset, readers, gil, h>>
    /\ UNCHANGED <<pc, loc, pool, avail, ready, cmd, map, maplock, agent_pool,
                   nclones, taskVars, rr, now, log, lifeVars, servicer>>

\* reply_worker up to set_result(call_id, to_string(task_id)): the args
\* read, the interpreter guard and the shared pool lock taken, the agent
\* looked up.  The handler goes on under its callback-id.
reply_worker_begin(c) ==
    /\ HandlerAt(c, reply, "new")
    /\ gil[h[c].w] = NoHolder
    /\ LET w == h[c].w
           args == get_content_val(slot, shm, "args", c).v
           callback_id == args[5]
       IN /\ gil' = [gil EXCEPT ![w] = <<"r", callback_id>>]
          /\ readers' = [readers EXCEPT ![w] = @ + 1]
          /\ SetResult(get_content_slot(slot, c),
                       get_content_shm(slot, shm, "args", c),
                       c, TaskIdBytes(args[4]))
          /\ rr' = [rr EXCEPT ![callback_id] =
                       [w |-> w, agent |-> args[2], msg |-> args[3],
                        tid |-> args[4], gil |-> TRUE,
                        found |-> args[2] \in agent_pool[w]]]
          /\ h' = [h EXCEPT ![c] = None]
    /\ UNCHANGED <<pc, loc, pool, avail, ready, cmd, map, maplock, agent_pool,
                   wstate, nclones, taskVars, now>>
    /\ UNCHANGED <<log, lifeVars, servicer>>

ReplyRunning(cb) == rr[cb] /= None /\ wstate[rr[cb].w] = "serving"

\* While agent.reply runs, the interpreter hands the guard to other threads
\* of the child and takes it back.
reply_worker_yield(cb) ==
    /\ ReplyRunning(cb)
    /\ rr[cb].gil
    /\ rr' = [rr EXCEPT ![cb].gil = FALSE]
    /\ gil' = [gil EXCEPT ![rr[cb].w] = NoHolder]
    /\ UNCHANGED <<pc, loc, ipcVars, map, maplock, agent_pool, readers, wstate,
                   nclones, taskVars, histVars, h, now>>

reply_worker_resume(cb) ==
    /\ ReplyRunning(cb)
    /\ ~rr[cb].gil
    /\ gil[rr[cb].w] = NoHolder
    /\ rr' = [rr EXCEPT ![cb].gil = TRUE]
    /\ gil' = [gil EXCEPT ![rr[cb].w] = <<"r", cb>>]
    /\ UNCHANGED <<pc, loc, ipcVars, map, maplock, agent_pool, readers, wstate,
                   nclones, taskVars, histVars, h, now>>

\* Faulty variant of ReplyResult: the message of the exception is dropped.
ReplyResult_NoMessage(r, raised) ==
    IF raised THEN MsgReturnBytes(FALSE, r.tid, "")
    ELSE MsgReturnBytes(TRUE, r.tid, r.msg)
\* The MsgReturn reply_worker serializes: the agent's reply, or ok = false
\* and e.what() when agent.reply threw.
ReplyResult(r, raised) ==
    IF raised THEN MsgReturnBytes(FALSE, r.tid, "e")
    ELSE MsgReturnBytes(TRUE, r.tid, r.msg)

\* Faulty variant of reply_worker_end: the exception leaves the handler
\* before set_result(callback_id).
reply_worker_end_ThrowSkips(cb, raised) ==
    /\ ReplyRunning(cb)
    /\ rr[cb].gil
    /\ LET r == rr[cb]
       IN /\ IF raised
             THEN UNCHANGED <<slot, shm, sem, nset, written>>
             ELSE /\ SetResult(slot, shm, cb, ReplyResult(r, raised))
                  /\ written' = [written EXCEPT ![r.tid] = ReplyResult(r, raised)]
          /\ readers' = [readers EXCEPT ![r.w] = @ - 1]
          /\ gil' = [gil EXCEPT ![r.w] = NoHolder]
          /\ rr' = [rr EXCEPT ![cb] = None]
          /\ UNCHANGED wstate
    /\ UNCHANGED <<pc, loc, pool, avail, ready, cmd, map, maplock, agent_pool,
                   nclones, tasks, num_tasks, tail, headr, helper, h, now>>
    /\ UNCHANGED <<log, lifeVars, servicer>>
\* agent.reply returns or throws; set_result(callback_id, reply_str); the
\* shared pool lock and the interpreter guard are released.
reply_worker_end(cb, raised) ==
    /\ ReplyRunning(cb)
    /\ rr[cb].gil
    /\ LET r == rr[cb]
       IN IF r.found
          THEN /\ SetResult(slot, shm, cb, ReplyResult(r, raised))
               /\ written' = [written EXCEPT ![r.tid] = ReplyResult(r, raised)]
               /\ readers' = [readers EXCEPT ![r.w] = @ - 1]
               /\ gil' = [gil EXCEPT ![r.w] = NoHolder]
               /\ rr' = [rr EXCEPT ![cb] = None]
               /\ UNCHANGED wstate
          ELSE /\ WorkerDies(r.w)
               /\ UNCHANGED <<slot, shm, sem, nset, written, readers, gil, rr>>
    /\ UNCHANGED <<pc, loc, pool, avail, ready, cmd, map, maplock, agent_pool,
                   nclones, tasks, num_tasks, tail, headr, helper, h, now>>
    /\ UNCHANGED <<log, lifeVars, servicer>>

(* --------------------- start-up and teardown -------------------------- *)
serverVars == <<pc, loc, ipcVars, agentVars, taskVars, nset, log, h, rr, now>>

\* The values of the constructor's num_workers and of
\* std::thread::hardware_concurrency() (0 when it cannot be told).
RequestedWorkers == 0 .. MaxForks
Cores == {0, 1, 2, 8}

\* SetupCppServer has installed signal_handler and is about to construct
\* the Worker.  inherited: the global worker already points to an earlier
\* Worker of this process, and the children will inherit that pointer.
InitLife ==
    /\ \E n \in RequestedWorkers, c \in Cores, inh \in BOOLEAN :
          main = [st |-> "new", num_workers |-> n, cores |-> c,
                  inherited |-> inh, _num_workers |-> 0, i |-> 0, k |-> 0,
                  via |-> "", sigint |-> FALSE]
    /\ child = [i \in Children |->
                  [st |-> "none", sigint |-> FALSE, killed |-> FALSE]]
    /\ names = {}
    /\ servicer = None
    /\ pc = [f \in Threads |-> "idle"]
    /\ loc = [f \in Threads |-> Loc0]
    /\ pool = <<>>
    /\ sem = [c \in CallIds |-> 0]
    /\ avail = [w \in Workers |-> 0]
    /\ ready = [w \in Workers |-> 0]
    /\ cmd = [w \in Workers |-> NoCmd]
    /\ slot = [c \in CallIds |-> EmptySlot]
    /\ shm = [k \in {"args", "result"} \X CallIds |-> NoSeg]
    /\ map = [a \in AgentIds |-> NoWorker]
    /\ maplock = Free
    /\ agent_pool = [w \in Workers |-> {}]
    /\ readers = [w \in Workers |-> 0]
    /\ gil = [w \in Workers |-> NoHolder]
    /\ wstate = [w \in Workers |-> "forked"]
    /\ h = [c \in CallIds |-> None]
    /\ rr = [c \in CallIds |-> None]
    /\ tasks = <<>>
    /\ num_tasks = 0
    /\ tail = Free
    /\ headr = {}
    /\ helper = [t \in TaskIds |-> None]
    /\ now = 0
    /\ nclones = 0
    /\ nset = [c \in CallIds |-> 0]
    /\ written = [t \in TaskIds |-> None]
    /\ log = <<>>

\* The member initializers and the objects created before the fork loop:
\* _num_workers(std::max(num_workers, 1u)).
Worker_Worker ==
    /\ main.st = "new"
    /\ main' = [main EXCEPT !.st = "launch", !.i = 0,
                   !._num_workers = IF main.num_workers > 1
                                    THEN main.num_workers ELSE 1]
    /\ names' = BaseNames
    /\ UNCHANGED <<child, serverVars, servicer>>

\* One turn of the fork loop: the two semaphores of worker i created, then
\* fork().  When fork fails the parent sends SIGINT to itself; the global
\* worker is not set yet, so signal_handler only calls exit(0).
launch_worker(fork_ok) ==
    /\ main.st = "launch"
    /\ main.i < main._num_workers
    /\ names' = names \cup WorkerNames(main.i)
    /\ IF fork_ok
       THEN /\ child' = [child EXCEPT ![main.i].st = "run"]
            /\ main' = [main EXCEPT !.i = @ + 1]
       ELSE /\ main' = [main EXCEPT !.st = "exited"]
            /\ UNCHANGED child
    /\ UNCHANGED <<serverVars, servicer>>

\* The loop is through: worker = new Worker(...) is assigned.
SetupCppServer_return ==
    /\ main.st = "launch"
    /\ main.i = main._num_workers
    /\ main' = [main EXCEPT !.st = "serving"]
    /\ UNCHANGED <<child, names, serverVars, servicer>>

\* A SIGINT from outside (the terminal, a child's error path) reaches
\* process p.
sigint_arrives(p) ==
    /\ IF p = MainPid
       THEN /\ main.st /= "exited" /\ ~main.sigint
            /\ main' = [main EXCEPT !.sigint = TRUE]
            /\ UNCHANGED child
       ELSE /\ child[p].st = "run" /\ ~child[p].sigint
            /\ child' = [child EXCEPT ![p].sigint = TRUE]
            /\ UNCHANGED main
    /\ UNCHANGED <<names, serverVars, servicer>>

\* kill(pid, SIGINT) on the k-th entry of _worker_pids, if there is one.
Kill(ch, k, npids) ==
    IF k < npids
    THEN [ch EXCEPT ![k].killed = TRUE, ![k].sigint = @ \/ ch[k].st = "run"]
    ELSE ch

\* ~Worker in the main process up to its first waitpid: the mappings and
\* the semaphores closed, _main_worker_pid == getpid(), the first child
\* sent SIGINT.
DtorEnter(via) ==
    /\ main' = [main EXCEPT !.st = "dtor", !.k = 0, !.via = via,
                            !.sigint = IF via = "signal" THEN FALSE ELSE @]
    /\ child' = Kill(child, 0, main.i)

\* ShutdownCppServer: delete worker from the host's thread.
ShutdownCppServer ==
    /\ main.st = "serving"
    /\ DtorEnter("shutdown")
    /\ UNCHANGED <<names, serverVars, servicer>>

\* signal_handler in process p.  In the main process: exit(0) when the
\* global worker is null; otherwise delete worker, also when a teardown
\* begun by ShutdownCppServer is under way or over (the object is deleted a
\* second time: its destructor runs once more or the process dies).  In a
\* child: delete worker when it inherited one, where ~Worker finds
\* another pid than its own and sends SIGINT to the main process; exit(0).
signal_handler(p) ==
    /\ IF p = MainPid
       THEN /\ main.sigint
            /\ main.st /= "exited"
            /\ ~(main.st = "dtor" /\ main.via = "signal")
            /\ \/ /\ main.st \in {"new", "launch", "shutdown"}
                  /\ main' = [main EXCEPT !.st = "exited", !.sigint = FALSE]
                  /\ UNCHANGED child
               \/ /\ main.st \in {"serving", "dtor", "shutdown"}
                  /\ DtorEnter("signal")
       ELSE /\ child[p].st = "run"
            /\ child[p].sigint
            /\ child' = [child EXCEPT ![p].st = "exited", ![p].sigint = FALSE]
            /\ main' = IF main.inherited /\ main.st /= "exited"
                       THEN [main EXCEPT !.sigint = TRUE]
                       ELSE main
    /\ UNCHANGED <<names, serverVars, servicer>>

\* Faulty variant of WaitpidReturns: the wait does not block.
WaitpidReturns_NoHang(c) == TRUE
\* waitpid(pid, NULL, 0) returns when the child has exited (or, in a
\* second run of the destructor, was waited for before).
WaitpidReturns(c) == c.st \in {"exited", "reaped"}

\* ~Worker in the main process: waitpid on the child just signalled, then
\* kill on the next one.
dtor_waitpid ==
    /\ main.st = "dtor"
    /\ main.k < main.i
    /\ WaitpidReturns(child[main.k])
    /\ child' = Kill([child EXCEPT ![main.k].st =
                          IF @ = "exited" THEN "reaped" ELSE @],
                     main.k + 1, main.i)
    /\ main' = [main EXCEPT !.k = @ + 1]
    /\ UNCHANGED <<names, serverVars, servicer>>

\* ~Worker in the main process after the loop over _worker_pids: the
\* command region, the pool, the semaphore sets, the semaphores of every
\* worker and every args_/result_ segment left are unlinked or removed.
\* The destructor returns to ShutdownCppServer or to signal_handler, which
\* calls exit(0).
dtor_unlink ==
    /\ main.st = "dtor"
    /\ main.k = main.i
    /\ names' = names \ (BaseNames \cup
                            UNION {WorkerNames(j) : j \in 0 .. (main.i - 1)})
    /\ shm' = [k \in {"args", "result"} \X CallIds |-> NoSeg]
    /\ main' = [main EXCEPT !.st = IF main.via = "signal"
                                   THEN "exited" ELSE "shutdown"]
    /\ UNCHANGED <<child, pc, loc, pool, sem, avail, ready, cmd, slot,
                   agentVars, taskVars, nset, log, h, rr, now, servicer>>

(* ------------------- the single-process servicers --------------------- *)
\* src/agentscope/server holds two servicers that run the agents in the
\* serving process itself: RpcAgentServiceImpl, a gRPC service whose
\* handlers the server runs on its own threads, and AgentServicer, a class
\* of a Python extension module whose methods Python threads call.
Variants == {"RpcAgentServiceImpl", "AgentServicer"}
\* The agents of _agent_pool, each with its mutex in _agent_pool_lock.
ServicerAgents == {"a", "b"}
\* The task-ids a client may ask for with update_placeholder.
ServicerTaskIds == -1 .. (MaxServicerCalls + 1)

\* A servicer thread that executes no method.
NoCall == [pc |-> "idle", agent |-> "", task_id |-> -1]

\* The servicer is built and not torn down by a fault.
ServicerUp == servicer /= None /\ servicer.alive

\* RpcAgentServiceImpl service (RunServer builds no interpreter: its guard
\* is commented out) and AgentServicer(max_pool_size, max_timeout_seconds)
\* (built by the Python process, whose interpreter runs): _task_list is
\* empty.  The two agents have been created.
Servicer_new(variant) ==
    /\ servicer = None
    /\ servicer' = [variant |-> variant,
                    alive |-> TRUE,
                    initialized |-> (variant = "AgentServicer"),
                    gil |-> Free,
                    _agent_pool_lock |-> [a \in ServicerAgents |-> Free],
                    _task_list |-> <<>>,
                    call |-> [f \in Threads |-> NoCall],
                    out |-> <<>>]
    /\ UNCHANGED <<serverVars, lifeVars>>

\* The entry of _reply.  RpcAgentServiceImpl: py::scoped_interpreter guard{}
\* reads Py_IsInitialized() and fails with an exception when the
\* interpreter runs; the read and the initialization that follows are two
\* steps.  AgentServicer: the calling Python thread holds the interpreter
\* lock.
_reply_enter(f, agent_id) ==
    /\ ServicerUp
    /\ servicer.call[f].pc = "idle"
    /\ Len(servicer.out) < MaxServicerCalls
    /\ IF servicer.variant = "RpcAgentServiceImpl"
       THEN IF servicer.initialized
            THEN servicer' = [servicer EXCEPT !.out = Append(@,
                     [op |-> "_reply", agent |-> agent_id, ok |-> FALSE,
                      task_id |-> -1, size |-> Len(servicer._task_list)])]
            ELSE servicer' = [servicer EXCEPT !.call[f] =
                     [pc |-> "init", agent |-> agent_id, task_id |-> -1]]
       ELSE /\ servicer.gil = Free
            /\ servicer' = [servicer EXCEPT !.gil = f, !.call[f] =
                     [pc |-> "size", agent |-> agent_id, task_id |-> -1]]
    /\ UNCHANGED <<serverVars, lifeVars>>

\* Py_InitializeEx of the guard of RpcAgentServiceImpl::_reply.
_reply_init(f) ==
    /\ ServicerUp
    /\ servicer.call[f].pc = "init"
    /\ servicer' = [servicer EXCEPT !.initialized = TRUE,
                                    !.call[f].pc = "size"]
    /\ UNCHANGED <<serverVars, lifeVars>>

\* get_agent, unique_lock agent_lock(*_agent_pool_lock[agent_id]),
\* int task_id = _task_list.size().
_reply_size(f) ==
    /\ ServicerUp
    /\ servicer.call[f].pc = "size"
    /\ LET a == servicer.call[f].agent
       IN /\ servicer._agent_pool_lock[a] = Free
          /\ servicer' = [servicer EXCEPT
                 !._agent_pool_lock[a] = f,
                 !.call[f].task_id = Len(servicer._task_list),
                 !.call[f].pc = "emplace_back"]
    /\ UNCHANGED <<serverVars, lifeVars>>

\* _task_list.emplace_back(std::make_unique<Task>(task_id)).  The vector
\* has no lock of its own: when another thread stands at its emplace_back
\* too, the two writes race, and one outcome is that both write the same
\* element and this one is lost.
_reply_emplace_back(f, lost) ==
    /\ ServicerUp
    /\ servicer.call[f].pc = "emplace_back"
    /\ lost => \E g \in Threads \ {f} : servicer.call[g].pc = "emplace_back"
    /\ servicer' = [servicer EXCEPT
           !._task_list = IF lost THEN @
                          ELSE Append(@, [_task_id |-> servicer.call[f].task_id,
                                          _task_finished |-> FALSE]),
           !.call[f].pc = "run"]
    /\ UNCHANGED <<serverVars, lifeVars>>

\* _task_list[task_id]->run(agent_id, agent, message): the executor thread
\* is started.  An index past the end is a fault.  The executor of
\* RpcAgentServiceImpl builds a py::scoped_interpreter of its own, which
\* fails while the guard of _reply lives, and the exception ends the
\* process; the executor of AgentServicer runs the agent's reply, during
\* which the interpreter lock may pass to another Python thread.
_reply_run(f, yield) ==
    /\ ServicerUp
    /\ servicer.call[f].pc = "run"
    /\ LET c == servicer.call[f]
       IN IF c.task_id + 1 > Len(servicer._task_list)
          THEN servicer' = [servicer EXCEPT !.alive = FALSE]
          ELSE IF servicer.variant = "RpcAgentServiceImpl"
          THEN IF servicer.initialized
               THEN servicer' = [servicer EXCEPT !.alive = FALSE]
               ELSE servicer' = [servicer EXCEPT !.initialized = TRUE,
                                                 !.call[f].pc = "join"]
          ELSE servicer' = [servicer EXCEPT
                   !.gil = IF yield THEN Free ELSE @,
                   !.call[f].pc = "join"]
    /\ UNCHANGED <<serverVars, lifeVars>>

\* The executor ends: _task_finished = true, notify_all, and
\* _task_executor.join() returns.  The executor of AgentServicer goes on
\* only with the interpreter lock; the one of RpcAgentServiceImpl
\* finalizes the interpreter it built.
Task_run_join(f) ==
    /\ ServicerUp
    /\ servicer.call[f].pc = "join"
    /\ LET i == servicer.call[f].task_id + 1
       IN IF servicer.variant = "RpcAgentServiceImpl"
          THEN servicer' = [servicer EXCEPT
                   !.initialized = FALSE,
                   !._task_list[i]._task_finished = TRUE,
                   !.call[f].pc = "return"]
          ELSE /\ servicer.gil \in {Free, f}
               /\ servicer' = [servicer EXCEPT
                      !.gil = f,
                      !._task_list[i]._task_finished = TRUE,
                      !.call[f].pc = "return"]
    /\ UNCHANGED <<serverVars, lifeVars>>

\* _reply returns the task-id; the agent's lock is released, and the guard
\* (RpcAgentServiceImpl) or the interpreter lock (AgentServicer) with it.
_reply_return(f) ==
    /\ ServicerUp
    /\ servicer.call[f].pc = "return"
    /\ LET c == servicer.call[f]
       IN servicer' = [servicer EXCEPT
              !._agent_pool_lock[c.agent] = Free,
              !.initialized = (servicer.variant = "AgentServicer"),
              !.gil = Free,
              !.call[f] = NoCall,
              !.out = Append(@, [op |-> "_reply", agent |-> c.agent,
                                 ok |-> TRUE, task_id |-> c.task_id,
                                 size |-> Len(servicer._task_list)])]
    /\ UNCHANGED <<serverVars, lifeVars>>

\* task_id >= _task_list.size(): the comparison is made in size_t, where a
\* negative id stands above every size.
TaskNotExists(task_id, size) == task_id < 0 \/ task_id >= size

\* update_placeholder(task_id): "not exists" for an id that is not an
\* index of _task_list, else _task_list[task_id]->get_result(), which
\* waits for _task_finished.
Servicer_update_placeholder(f, task_id) ==
    /\ ServicerUp
    /\ servicer.call[f].pc = "idle"
    /\ Len(servicer.out) < MaxServicerCalls
    /\ servicer.variant = "AgentServicer" => servicer.gil = Free
    /\ LET size == Len(servicer._task_list)
       IN IF TaskNotExists(task_id, size)
          THEN servicer' = [servicer EXCEPT !.out = Append(@,
                   [op |-> "update_placeholder", agent |-> "", ok |-> FALSE,
                    task_id |-> task_id, size |-> size])]
          ELSE /\ servicer._task_list[task_id + 1]._task_finished
               /\ servicer' = [servicer EXCEPT !.out = Append(@,
                      [op |-> "update_placeholder", agent |-> "", ok |-> TRUE,
                       task_id |-> servicer._task_list[task_id + 1]._task_id,
                       size |-> size])]
    /\ UNCHANGED <<serverVars, lifeVars>>

(* --------------------------- specifications --------------------------- *)
\* Start-up and teardown of the processes.
LifeCycleStep ==
    \/ Worker_Worker
    \/ \E fork_ok \in BOOLEAN : launch_worker(fork_ok)
    \/ SetupCppServer_return
    \/ \E p \in {MainPid} \cup Children : sigint_arrives(p)
    \/ \E p \in {MainPid} \cup Children : signal_handler(p)
    \/ ShutdownCppServer
    \/ dtor_waitpid
    \/ dtor_unlink
SpecLifeCycle == InitLife /\ [][LifeCycleStep]_vars

\* The steps every call shares.
DispatchStep ==
    \/ \E f \in Threads : call_worker_func_wait(f)
    \/ \E f \in Threads : call_worker_func_post(f)
    \/ \E f \in Threads : get_result(f)
    \/ \E f \in Threads : rpc_return(f)
    \/ \E w \in Workers : worker_loop(w)

\* call_reply and call_update_placeholder with the reply handler and the
\* helper threads.
ReplyStep ==
    \/ \E f \in Threads, a \in ClientAgents, m \in Msgs : call_reply(f, a, m)
    \/ \E f \in Threads : get_task_id_and_callback_id_trim(f)
    \/ \E f \in Threads : get_task_id_and_callback_id_lock(f)
    \/ \E f \in Threads : get_task_id_and_callback_id_enqueue(f)
    \/ \E t \in TaskIds : helper_get_result(t)
    \/ \E t \in TaskIds : helper_exit(t)
    \/ \E f \in Threads, t \in RequestedTaskIds : call_update_placeholder(f, t)
    \/ \E f \in Threads : get_task_result_return(f)
    \/ \E c \in CallIds : reply_worker_begin(c)
    \/ \E c \in CallIds : reply_worker_yield(c)
    \/ \E c \in CallIds : reply_worker_resume(c)
    \/ \E c \in CallIds, raised \in BOOLEAN : reply_worker_end(c, raised)

\* create, delete and delete_all with their handlers.
LifeStep ==
    \/ \E w \in Workers : worker_start(w)
    \/ \E f \in Threads, a \in ClientAgents : call_create_agent(f, a)
    \/ \E f \in Threads : find_avail_worker_id_probe(f)
    \/ \E f \in Threads : find_avail_worker_id_fallback(f)
    \/ \E f \in Threads : agent_id_map_insert(f)
    \/ \E f \in Threads, a \in AgentIds : call_delete_agent(f, a)
    \/ \E f \in Threads : call_delete_agent_erase(f)
    \/ \E f \in Threads : call_delete_all_agents(f)
    \/ \E f \in Threads : call_delete_all_agents_clear(f)
    \/ \E c \in CallIds : create_agent_worker_begin(c)
    \/ \E c \in CallIds, failed \in BOOLEAN : create_agent_worker_end(c, failed)
    \/ \E c \in CallIds : delete_agent_worker_begin(c)
    \/ \E c \in CallIds : delete_agent_worker_end(c)
    \/ \E c \in CallIds : delete_all_agents_worker_begin(c)
    \/ \E c \in CallIds : delete_all_agents_worker_end(c)

\* clone with its handler.
CloneStep ==
    \/ \E f \in Threads, a \in AgentIds : call_clone_agent(f, a)
    \/ \E c \in CallIds : clone_agent_worker_begin(c)
    \/ \E c \in CallIds : clone_agent_worker_end(c)

\* call_observe with its handler, and the RPC method that selects between
\* call_reply and call_observe.
ObserveStep ==
    \/ \E f \in Threads, a \in AgentIds, m \in Msgs : call_observe(f, a, m)
    \/ \E c \in CallIds : observe_worker_begin(c)
    \/ \E c \in CallIds : observe_worker_end(c)
    \/ \E f \in Threads, tf \in TargetFuncs, a \in AgentIds, m \in Msgs :
          call_agent_func(f, tf, a, m)

\* get_agent_list with its handler.
ListStep ==
    \/ \E f \in Threads : call_get_agent_list(f)
    \/ \E c \in CallIds : get_agent_list_worker(c)

\* set_model_configs with its handler.
ConfigStep ==
    \/ \E f \in Threads, m \in Msgs : call_set_model_configs(f, m)
    \/ \E c \in CallIds : set_model_configs_worker(c)

\* download_file.
DownloadStep ==
    \/ \E f \in Threads, file \in Files : download_file(f, file)
    \/ \E f \in Threads, read_error, write_ok \in BOOLEAN :
          download_file_loop(f, read_error, write_ok)

\* The whole server, from the state the constructor leaves.
Next ==
    \/ DispatchStep \/ ReplyStep \/ Tick \/ LifeStep \/ CloneStep \/ ListStep
    \/ ObserveStep \/ ConfigStep \/ DownloadStep \/ LifeCycleStep
    \/ \E f \in SeqThreads : Len(log) < MaxCalls /\ client_return(f)
Spec == Init /\ [][Next]_vars

\* The agent life cycle alone: no clone and no reply is issued.
NextAgents == DispatchStep \/ LifeStep
SpecAgents == Init /\ [][NextAgents]_vars

\* A server on which create_agent(a) has completed on worker 0 and both
\* children serve: the state from which replies are issued.
InitReply ==
    /\ pc = [f \in Threads |-> "idle"]
    /\ loc = [f \in Threads |-> Loc0]
    /\ pool = [i \in 1 .. MaxCallId |-> IF i = MaxCallId THEN 0 ELSE i]
    /\ sem = [c \in CallIds |-> 0]
    /\ avail = [w \in Workers |-> 1]
    /\ ready = [w \in Workers |-> 0]
    /\ cmd = [w \in Workers |-> NoCmd]
    /\ slot = [c \in CallIds |-> EmptySlot]
    /\ shm = [k \in {"args", "result"} \X CallIds |-> NoSeg]
    /\ map = [a \in AgentIds |-> IF a \in ClientAgents THEN 0 ELSE NoWorker]
    /\ maplock = Free
    /\ agent_pool = [w \in Workers |-> IF w = 0 THEN ClientAgents ELSE {}]
    /\ readers = [w \in Workers |-> 0]
    /\ gil = [w \in Workers |-> NoHolder]
    /\ wstate = [w \in Workers |-> "serving"]
    /\ h = [c \in CallIds |-> None]
    /\ rr = [c \in CallIds |-> None]
    /\ tasks = <<>>
    /\ num_tasks = 0
    /\ tail = Free
    /\ headr = {}
    /\ helper = [t \in TaskIds |-> None]
    /\ now = 0
    /\ nclones = 0
    /\ nset = [c \in CallIds |-> 0]
    /\ written = [t \in TaskIds |-> None]
    /\ log = <<>>
    /\ InitServing

\* The calls of the sequential client.
SeqCalls ==
    /\ Len(log) < MaxCalls
    /\ \/ \E f \in SeqThreads, a \in ClientAgents : call_create_agent(f, a)
       \/ \E f \in SeqThreads, a \in AgentIds : call_delete_agent(f, a)
       \/ \E f \in SeqThreads : call_delete_all_agents(f)
       \/ \E f \in SeqThreads, a \in AgentIds : call_clone_agent(f, a)
       \/ \E f \in SeqThreads : call_get_agent_list(f)
\* What the front-end and the children do between a call and its return.
LifeWork ==
    \/ \E w \in Workers : worker_start(w)
    \/ \E f \in Threads : find_avail_worker_id_probe(f)
    \/ \E f \in Threads : find_avail_worker_id_fallback(f)
    \/ \E f \in Threads : agent_id_map_insert(f)
    \/ \E f \in Threads : call_delete_agent_erase(f)
    \/ \E f \in Threads : call_delete_all_agents_clear(f)
    \/ \E c \in CallIds : create_agent_worker_begin(c)
    \/ \E c \in CallIds, failed \in BOOLEAN : create_agent_worker_end(c, failed)
    \/ \E c \in CallIds : delete_agent_worker_begin(c)
    \/ \E c \in CallIds : delete_agent_worker_end(c)
    \/ \E c \in CallIds : delete_all_agents_worker_begin(c)
    \/ \E c \in CallIds : delete_all_agents_worker_end(c)
    \/ \E c \in CallIds : clone_agent_worker_begin(c)
    \/ \E c \in CallIds : clone_agent_worker_end(c)
    \/ \E c \in CallIds : get_agent_list_worker(c)
NextSeq ==
    \/ SeqCalls
    \/ \E f \in Threads : call_worker_func_wait(f)
    \/ \E f \in Threads : call_worker_func_post(f)
    \/ \E f \in Threads : get_result(f)
    \/ \E f \in SeqThreads : client_return(f)
    \/ \E w \in Workers : worker_loop(w)
    \/ LifeWork
SpecSeq == Init /\ [][NextSeq]_vars

\* The channel alone: threads write a payload for a call-id that carries
\* none and read it back, on either direction and on different call-ids at
\* the same time.
NextContent ==
    \/ \E f \in Threads, prefix \in Prefixes, c \in CallIds,
          content \in Payloads : set_content(f, prefix, c, content)
    \/ \E f \in Threads : get_content(f)
    \/ \E f \in Threads : rpc_return(f)
SpecContent == Init /\ [][NextContent]_vars

\* call_agent_func from one client, on the server of InitReply: replies and
\* observes on the agent that exists and on ids the table does not hold,
\* and calls of an unsupported target_func.
NextFunc ==
    \/ /\ Len(log) < MaxCalls
       /\ \E f \in SeqThreads, tf \in TargetFuncs, a \in AgentIds, m \in Msgs :
             call_agent_func(f, tf, a, m)
    \/ \E f \in Threads : call_worker_func_wait(f)
    \/ \E f \in Threads : call_worker_func_post(f)
    \/ \E f \in Threads : get_result(f)
    \/ \E f \in SeqThreads : client_return(f)
    \/ \E w \in Workers : worker_loop(w)
    \/ \E f \in Threads : get_task_id_and_callback_id_trim(f)
    \/ \E f \in Threads : get_task_id_and_callback_id_lock(f)
    \/ \E f \in Threads : get_task_id_and_callback_id_enqueue(f)
    \/ \E t \in TaskIds : helper_get_result(t)
    \/ \E t \in TaskIds : helper_exit(t)
    \/ \E c \in CallIds : reply_worker_begin(c)
    \/ \E c \in CallIds : reply_worker_yield(c)
    \/ \E c \in CallIds : reply_worker_resume(c)
    \/ \E c \in CallIds, raised \in BOOLEAN : reply_worker_end(c, raised)
    \/ \E c \in CallIds : observe_worker_begin(c)
    \/ \E c \in CallIds : observe_worker_end(c)
SpecFunc == InitReply /\ [][NextFunc]_vars

\* set_model_configs alone, issued by every front-end thread, from the
\* state the constructor leaves.
NextConfigs ==
    \/ DispatchStep
    \/ ConfigStep
    \/ \E w \in Workers : worker_start(w)
SpecConfigs == Init /\ [][NextConfigs]_vars

\* download_file alone, by every front-end thread; a thread that stands in
\* the loop runs.
NextDownload ==
    \/ DownloadStep
    \/ \E f \in Threads : rpc_return(f)
SpecDownload ==
    /\ Init /\ [][NextDownload]_vars
    /\ \A f \in Threads :
          WF_vars(\E read_error, write_ok \in BOOLEAN :
                     download_file_loop(f, read_error, write_ok))

\* Every call of the front-end that goes through call_worker_func, issued
\* by one client, one call after the other, from the state the constructor
\* leaves; the children and the handlers run beside it.
NextCalls ==
    \/ SeqCalls
    \/ /\ Len(log) < MaxCalls
       /\ \/ \E f \in SeqThreads, m \in Msgs : call_set_model_configs(f, m)
          \/ \E f \in SeqThreads, a \in ClientAgents, m \in Msgs :
                call_reply(f, a, m)
          \/ \E f \in SeqThreads, a \in ClientAgents, m \in Msgs :
                call_observe(f, a, m)
          \/ \E f \in SeqThreads, a \in ClientAgents :
                call_get_agent_memory(f, a)
    \/ \E f \in Threads : call_worker_func_wait(f)
    \/ \E f \in Threads : call_worker_func_post(f)
    \/ \E f \in Threads : get_result(f)
    \/ \E f \in SeqThreads : client_return(f)
    \/ \E w \in Workers : worker_loop(w)
    \/ LifeWork
    \/ \E c \in CallIds : set_model_configs_worker(c)
    \/ \E f \in Threads : get_task_id_and_callback_id_trim(f)
    \/ \E f \in Threads : get_task_id_and_callback_id_lock(f)
    \/ \E f \in Threads : get_task_id_and_callback_id_enqueue(f)
    \/ \E t \in TaskIds : helper_get_result(t)
    \/ \E t \in TaskIds : helper_exit(t)
    \/ \E c \in CallIds : reply_worker_begin(c)
    \/ \E c \in CallIds : reply_worker_yield(c)
    \/ \E c \in CallIds : reply_worker_resume(c)
    \/ \E c \in CallIds, raised \in BOOLEAN : reply_worker_end(c, raised)
    \/ \E c \in CallIds : observe_worker_begin(c)
    \/ \E c \in CallIds : observe_worker_end(c)
    \/ \E c \in CallIds : get_agent_memory_worker_begin(c)
    \/ \E c \in CallIds, memory \in Memories : get_agent_memory_worker_end(c, memory)
SpecCalls == Init /\ [][NextCalls]_vars

\* create_agent alone, by every front-end thread, with find_avail_worker_id
\* followed probe by probe, from the state the constructor leaves.
NextProbe ==
    \/ \E f \in Threads, a \in ClientAgents : call_create_agent(f, a)
    \/ \E f \in Threads, i \in Workers : find_avail_worker_id_trywait(f, i)
    \/ \E f \in Threads : find_avail_worker_id_wait(f)
    \/ \E f \in Threads : call_worker_func_post(f)
    \/ \E f \in Threads : get_result(f)
    \/ \E f \in Threads : agent_id_map_insert(f)
    \/ \E f \in Threads : rpc_return(f)
    \/ \E w \in Workers : worker_start(w)
    \/ \E w \in Workers : worker_loop(w)
    \/ \E c \in CallIds : create_agent_worker_begin(c)
    \/ \E c \in CallIds, failed \in BOOLEAN : create_agent_worker_end(c, failed)
SpecProbe == Init /\ [][NextProbe]_vars

NextReply == DispatchStep \/ ReplyStep \/ Tick
SpecReply == InitReply /\ [][NextReply]_vars

\* The replies within one second of the clock, with the scheduling the
\* threads of the parent get from the operating system: a helper thread
\* whose semaphore is posted runs, a helper that has set the flag leaves the
\* task mutex, and a waiter whose predicate holds and whose mutex is free
\* returns.
NextReplyNoTick == DispatchStep \/ ReplyStep
SpecReplyFair ==
    /\ InitReply /\ [][NextReplyNoTick]_vars
    /\ \A t \in TaskIds : WF_vars(helper_get_result(t))
    /\ \A t \in TaskIds : WF_vars(helper_exit(t))
    /\ \A f \in Threads : WF_vars(get_task_result_return(f))

\* The replies with every thread of the server scheduled fairly: a
\* front-end thread that can take its next step takes it, a child with a
\* function-ready post reads its command, a handler that can run runs, and
\* agent.reply ends whenever the interpreter lets it run again and again.
\* Clients are not obliged to issue calls.
ServerStep ==
    \/ \E f \in Threads : call_worker_func_wait(f)
    \/ \E f \in Threads : call_worker_func_post(f)
    \/ \E f \in Threads : get_result(f)
    \/ \E w \in Workers : worker_loop(w)
    \/ \E f \in Threads : get_task_id_and_callback_id_trim(f)
    \/ \E f \in Threads : get_task_id_and_callback_id_lock(f)
    \/ \E f \in Threads : get_task_id_and_callback_id_enqueue(f)
    \/ \E t \in TaskIds : helper_get_result(t)
    \/ \E t \in TaskIds : helper_exit(t)
    \/ \E f \in Threads : get_task_result_return(f)
    \/ \E c \in CallIds : reply_worker_begin(c)
    \/ \E c \in CallIds : reply_worker_resume(c)
SpecServerFair ==
    /\ InitReply /\ [][NextReplyNoTick]_vars
    /\ WF_vars(ServerStep)
    /\ \A cb \in CallIds :
          SF_vars(\E raised \in BOOLEAN : reply_worker_end(cb, raised))

\* Replies and delete_agent on the agents of one child, with every thread
\* of the server scheduled fairly as in SpecServerFair; the handler of
\* delete_agent runs when it can.
NextHandlers ==
    \/ DispatchStep
    \/ \E f \in Threads, a \in ClientAgents, m \in Msgs : call_reply(f, a, m)
    \/ \E f \in Threads : get_task_id_and_callback_id_trim(f)
    \/ \E f \in Threads : get_task_id_and_callback_id_lock(f)
    \/ \E f \in Threads : get_task_id_and_callback_id_enqueue(f)
    \/ \E t \in TaskIds : helper_get_result(t)
    \/ \E t \in TaskIds : helper_exit(t)
    \/ \E c \in CallIds : reply_worker_begin(c)
    \/ \E c \in CallIds : reply_worker_yield(c)
    \/ \E c \in CallIds : reply_worker_resume(c)
    \/ \E c \in CallIds, raised \in BOOLEAN : reply_worker_end(c, raised)
    \/ \E f \in Threads, a \in ClientAgents : call_delete_agent(f, a)
    \/ \E f \in Threads : call_delete_agent_erase(f)
    \/ \E c \in CallIds : delete_agent_worker_begin(c)
    \/ \E c \in CallIds : delete_agent_worker_end(c)
DeleteStep ==
    \/ \E f \in Threads : call_delete_agent_erase(f)
    \/ \E c \in CallIds : delete_agent_worker_begin(c)
    \/ \E c \in CallIds : delete_agent_worker_end(c)
SpecHandlersFair ==
    /\ InitReply /\ [][NextHandlers]_vars
    /\ WF_vars(ServerStep)
    /\ WF_vars(DeleteStep)
    /\ \A cb \in CallIds :
          SF_vars(\E raised \in BOOLEAN : reply_worker_end(cb, raised))

\* The single-process servicers: the servicer built, then _reply and
\* update_placeholder by every thread.
NextServicer ==
    \/ \E variant \in Variants : Servicer_new(variant)
    \/ \E f \in Threads, a \in ServicerAgents : _reply_enter(f, a)
    \/ \E f \in Threads : _reply_init(f)
    \/ \E f \in Threads : _reply_size(f)
    \/ \E f \in Threads, lost \in BOOLEAN : _reply_emplace_back(f, lost)
    \/ \E f \in Threads, yield \in BOOLEAN : _reply_run(f, yield)
    \/ \E f \in Threads : Task_run_join(f)
    \/ \E f \in Threads : _reply_return(f)
    \/ \E f \in Threads, t \in ServicerTaskIds : Servicer_update_placeholder(f, t)
SpecServicer == Init /\ [][NextServicer]_vars

(* ------------------------ call-ids: C1, C2, C7 ------------------------ *)
InSeq(p, c) == \E i \in 1 .. Len(p) : p[i] = c
\* How often call-id c stands in the free pool.
PoolCount(c) == Cardinality({i \in 1 .. Len(pool) : pool[i] = c})

\* Front-end call f is between the get_call_id that gave it c and its
\* get_result(c).
CallHolds(f, c) ==
    /\ loc[f].cid = c
    /\ \/ loc[f].op \in {"create", "clone", "reply"} /\ pc[f] = "result"
       \/ loc[f].op = "delete" /\ pc[f] \in {"erase", "result"}
\* The broadcast of f has taken c for its i-th worker and not yet read the
\* result.
BroadcastHolds(f, i, c) == i <= Len(loc[f].ids) /\ loc[f].ids[i] = c
\* Task t holds c as its callback-id: its helper thread has not yet
\* returned from get_result(c).
TaskHolds(t, c) == helper[t] /= None /\ helper[t].st = "run" /\ helper[t].cb = c

\* The exchanges in flight that hold c.
HoldCount(c) ==
    Cardinality({f \in Threads : CallHolds(f, c)})
    + Cardinality({x \in Threads \X (1 .. NumWorkers) :
                      BroadcastHolds(x[1], x[2], c)})
    + Cardinality({t \in TaskIds : TaskHolds(t, c)})
\* The number of exchanges in flight.
InFlight ==
    Cardinality({x \in Threads \X CallIds : CallHolds(x[1], x[2])})
    + Cardinality({x \in Threads \X (1 .. NumWorkers) \X CallIds :
                      BroadcastHolds(x[1], x[2], x[3])})
    + Cardinality({x \in TaskIds \X CallIds : TaskHolds(x[1], x[2])})

\* C1: while the parent runs, every call-id is either once in the free pool
\* or held by exactly one exchange in flight, never both and never twice in
\* the pool.
C1_CallIdPoolOrInFlight ==
    ParentAlive => \A c \in CallIds : PoolCount(c) + HoldCount(c) = 1

\* A call has handed its id back while the task it started still holds
\* its callback-id.
C1_Witness ==
    /\ Len(pool) = MaxCallId - 1
    /\ \E t \in TaskIds, c \in CallIds : TaskHolds(t, c) /\ ~InSeq(pool, c)
    /\ \E f \in Threads :
          pc[f] = "done" /\ loc[f].op = "reply" /\ InSeq(pool, loc[f].cid)

\* Between the hand-out of c and its return at most one set_result(c) has
\* happened, and none is outstanding once c is back in the pool.
C2_AtMostOneSetResult ==
    ParentAlive =>
        \A c \in CallIds : /\ nset[c] <= 1
                           /\ InSeq(pool, c) => nset[c] = 0 /\ sem[c] = 0
\* c enters the pool only by a get_result(c) that consumes the one post of
\* the one set_result(c); every get_result(c) puts c in the pool; c leaves
\* the pool with no set_result counted for it.
C2_Step ==
    \A c \in CallIds :
        /\ (InSeq(pool', c) /\ ~InSeq(pool, c)) =>
               nset[c] = 1 /\ sem[c] = 1 /\ sem'[c] = 0
        /\ sem'[c] < sem[c] => (~InSeq(pool, c) /\ InSeq(pool', c))
        /\ (InSeq(pool, c) /\ ~InSeq(pool', c)) => nset'[c] = 0 /\ sem'[c] = 0
\* C2: for every call-id handed out by get_call_id, exactly one set_result
\* and exactly one get_result occur before it is handed out again, and the
\* get_result puts it back in the free pool.
C2_OneSetOneGetPerCallId == []C2_AtMostOneSetResult /\ [][C2_Step]_vars

\* Both ids of a reply exchange went through set_result and get_result and
\* are in the pool again.
C2_Witness ==
    /\ Len(pool) = MaxCallId
    /\ \E t \in TaskIds : written[t] /= None /\ helper[t] = None
    /\ \A c \in CallIds : nset[c] = 0

\* C7: never more than max_call_id exchanges are in flight; a thread that
\* stands in get_call_id (for a call-id or for a callback-id) can go on
\* exactly when fewer than max_call_id are in flight, that is, it is blocked
\* while the pool is exhausted and free to go once a get_result has
\* returned an id.
C7_BlocksWhenSaturated ==
    ParentAlive =>
        /\ InFlight <= MaxCallId
        /\ \A f \in Threads :
              /\ pc[f] = "callid" =>
                    (ENABLED call_worker_func_post(f) <=> InFlight < MaxCallId)
              /\ pc[f] = "cbid" =>
                    (ENABLED get_task_id_and_callback_id_enqueue(f)
                        <=> InFlight < MaxCallId)

\* max_call_id exchanges are in flight and one more call waits for an id.
C7_Witness ==
    /\ InFlight = MaxCallId
    /\ pool = <<>>
    /\ \E f \in Threads : pc[f] \in {"callid", "cbid"}

(* ------------------- reply and update_placeholder: C3, C4 ------------- *)
\* Front-end thread f has returned from an update_placeholder that found
\* its task and waited for it.
UpdateReturned(f) == pc[f] = "done" /\ loc[f].op = "update" /\ loc[f].idx >= 0

\* C3: call_reply answers the task-id, and while the agent's reply for a
\* task runs the call_reply that issued it has returned or finds its result
\* posted; an update_placeholder(t) that returns a result does so after
\* set_result(callback_id) of task t, with the bytes written for t.
C3_ReplyBeforeResult ==
    ParentAlive =>
        /\ \A f \in Threads :
              (pc[f] = "done" /\ loc[f].op = "reply" /\ loc[f].ret.ok) =>
                  loc[f].ret.message = TaskIdBytes(loc[f].tid).v
        /\ \A cb \in CallIds, f \in Threads :
              (rr[cb] /= None /\ loc[f].op = "reply"
                  /\ loc[f].tid = rr[cb].tid /\ pc[f] = "result") =>
                  sem[loc[f].cid] > 0
        /\ \A f \in Threads :
              UpdateReturned(f) =>
                  /\ loc[f].tid \in TaskIds
                  /\ written[loc[f].tid] /= None
                  /\ loc[f].ret =
                        PlaceholderAnswer(loc[f].tid, written[loc[f].tid])

\* call_reply has returned a task-id whose reply still runs, and an
\* update_placeholder of an earlier task has returned its result.
C3_Witness ==
    \E f, g \in Threads, cb \in CallIds :
        /\ pc[f] = "done" /\ loc[f].op = "reply" /\ loc[f].ret.ok
        /\ rr[cb] /= None /\ rr[cb].tid = loc[f].tid
        /\ UpdateReturned(g) /\ loc[g].ret.ok /\ loc[g].tid /= loc[f].tid

\* A waiter on a task whose callback semaphore was not posted cannot return.
C4_BlockedUntilPost ==
    \A f \in Threads :
        (pc[f] = "wait" /\ written[loc[f].tid] = None) =>
            ~ENABLED get_task_result_return(f)
\* A waiter on a task whose callback semaphore was posted returns.
C4_ReturnsAfterPost ==
    \A f \in Threads, t \in TaskIds :
        (pc[f] = "wait" /\ loc[f].tid = t /\ written[t] /= None)
            ~> (pc[f] = "done" /\ loc[f].tid = t)
\* C4: get_task_result(t) on a task of the registry stays blocked as long as
\* reply_worker has not executed set_result(callback_id) for t, and under
\* fair scheduling it returns once that has happened.
C4_ReturnsIffPosted == []C4_BlockedUntilPost /\ C4_ReturnsAfterPost

\* A waiter stands in get_task_result while the reply of its task runs.
C4_Witness ==
    \E f \in Threads, cb \in CallIds :
        /\ pc[f] = "wait"
        /\ rr[cb] /= None /\ rr[cb].tid = loc[f].tid
        /\ written[loc[f].tid] = None

(* --------------------------- agents: C5, C6 --------------------------- *)
\* No front-end call is in progress and no handler runs.
Quiescent ==
    /\ \A f \in Threads : pc[f] \in {"idle", "done"}
    /\ \A c \in CallIds : h[c] = None /\ rr[c] = None
    /\ \A w \in Workers : ready[w] = 0

\* C5 (from the table to the pool): with no call in flight, an agent the
\* routing table maps to worker w is in the agent pool of w.
C5_RoutedAgentInPool ==
    Quiescent =>
        \A a \in AgentIds, w \in Workers : map[a] = w => a \in agent_pool[w]

\* C6: no agent id is in the agent pools of two different workers.
C6_AgentIdInOnePool ==
    \A a \in AgentIds, w1, w2 \in Workers :
        (a \in agent_pool[w1] /\ a \in agent_pool[w2]) => w1 = w2

(* ------------------------ task FIFO: C8, C9, C10 ---------------------- *)
\* C8: the task FIFO never holds more than max_tasks entries (it grows only
\* by the enqueue that follows a head-trim).
C8_FifoAtMostMaxTasks == Len(tasks) <= MaxTasks

\* C9: right after the head-trim of a call_reply no entry of the FIFO is
\* older than max_timeout_seconds.
C9_NoStaleEntryAfterTrim ==
    [][\A f \in Threads :
          (pc[f] = "trim" /\ pc'[f] = "tail") =>
              \A i \in 1 .. Len(tasks') : ~is_timeout(tasks'[i].ts, now')]_vars

\* The replies that have got a task-id and have returned.
RepliesReturned ==
    num_tasks - Cardinality({g \in Threads :
                    /\ loc[g].op = "reply"
                    /\ pc[g] \in {"cbid", "avail", "callid", "result"}})
\* C10: once max_tasks + 1 replies have returned, update_placeholder on the
\* first task-id does not find the task.
C10_OldestUnreachable ==
    [][\A f \in Threads :
          (RepliesReturned >= MaxTasks + 1 /\ pc[f] = "idle"
              /\ loc'[f].op = "update" /\ loc'[f].tid = 0) =>
              (pc'[f] = "done" /\ ~loc'[f].ret.ok)]_vars

(* ------------------- update_placeholder: C11, C12 --------------------- *)
\* The registry holds task t.
TaskFound(t) == PosOf(tasks, t) /= 0

\* C11: an update_placeholder(t) for a task-id the registry does not hold
\* (evicted, never assigned, negative, or asked for while the registry is
\* empty) returns at once with ok = false and "Task [t] not exists.", and
\* touches neither the registry nor its head lock.
C11_MissingTaskNotExists ==
    [][\A f \in Threads, t \in RequestedTaskIds :
          (call_update_placeholder(f, t) /\ ~TaskFound(t)) =>
              /\ pc'[f] = "done"
              /\ loc'[f].ret =
                    [ok |-> FALSE, message |-> <<"Task not exists", t>>]
              /\ UNCHANGED <<tasks, headr>>]_vars

\* A caller that waits in get_task_result waits on a task of the registry,
\* the one it asked for.
C12_WaiterHasTask ==
    \A f \in Threads :
        pc[f] = "wait" =>
            /\ loc[f].idx + 1 <= Len(tasks)
            /\ tasks[loc[f].idx + 1].id = loc[f].tid
\* A task that leaves the registry is finished and has no waiter.
C12_TrimStep ==
    \A i \in 1 .. Len(tasks) :
        PosOf(tasks', tasks[i].id) = 0 =>
            /\ tasks[i].finished
            /\ \A f \in Threads : pc[f] = "wait" => loc[f].tid /= tasks[i].id
\* A waiter that returns answers with the result stored in its task.
C12_ReturnStep ==
    \A f \in Threads :
        (pc[f] = "wait" /\ pc'[f] = "done") =>
            /\ TaskFound(loc[f].tid)
            /\ loc'[f].ret =
                  PlaceholderAnswer(loc[f].tid,
                                    tasks[PosOf(tasks, loc[f].tid)].result)
\* C12: the head-trim removes only finished tasks and never a task an
\* update_placeholder caller waits on, so that every get_task_result that
\* found its task returns the result of that task.
C12_TrimKeepsWaitedTasks ==
    []C12_WaiterHasTask /\ [][C12_TrimStep /\ C12_ReturnStep]_vars

\* A reply has run its head-trim while the front task, finished and due for
\* removal, had a waiter.
C12_Witness ==
    \E f, g \in Threads :
        /\ pc[f] = "wait" /\ loc[f].idx = 0
        /\ pc[g] = "tail"
        /\ TrimCond(tasks, now)

(* --------------- one client, one call at a time: C13 ------------------ *)
\* Agent a is in neither the routing table nor any pool.
AgentAbsent(a) == map[a] = NoWorker /\ \A w \in Workers : a \notin agent_pool[w]
\* Front-end thread f has finished a call of kind op and not yet answered.
Returned(f, op) == pc[f] = "done" /\ loc[f].op = op
\* The last answer the client got is that of a successful delete_agent(a).
DeleteReturnedOk(a) ==
    /\ log /= <<>>
    /\ log[Len(log)].op = "delete"
    /\ log[Len(log)].agent = a
    /\ log[Len(log)].ret.ok

\* After delete_agent(a) has returned, a is in no table and in no pool.
C13_AbsentAfterDelete ==
    \A f \in SeqThreads, a \in AgentIds :
        (DeleteReturnedOk(a) /\ pc[f] = "idle") => AgentAbsent(a)
\* The create_agent(a) that follows is not refused as a duplicate: it fails
\* only with the agent host's own error, and otherwise a is in the pool of
\* the worker that was chosen and the table maps a to it.
C13_CreateAfterDelete ==
    \A f \in SeqThreads, a \in AgentIds :
        (DeleteReturnedOk(a) /\ Returned(f, "create") /\ loc[f].agent = a) =>
            IF loc[f].ret.ok
            THEN /\ loc[f].wid \in Workers
                 /\ map[a] = loc[f].wid
                 /\ a \in agent_pool[loc[f].wid]
            ELSE loc[f].ret.message = ErrorBytes(a).v
\* C13: create_agent(a), delete_agent(a), create_agent(a), each issued after
\* the previous one returned: after the delete a is in neither the table nor
\* any pool, and the second create succeeds and inserts a again, whichever
\* worker is chosen.
C13_CreateDeleteCreate == C13_AbsentAfterDelete /\ C13_CreateAfterDelete

\* create(a), delete(a) were answered ok and the third call, create(a), has
\* succeeded on the second worker.
C13_Witness ==
    /\ Len(log) = 2
    /\ log[1].op = "create" /\ log[1].ret.ok
    /\ DeleteReturnedOk(log[1].agent)
    /\ \E f \in SeqThreads :
          /\ Returned(f, "create") /\ loc[f].agent = log[1].agent
          /\ loc[f].ret.ok /\ loc[f].wid = NumWorkers - 1

(* ------------------------------- C14 ---------------------------------- *)
\* The last answer the client got is that of a call of kind op.
LastAnswered(op) == log /= <<>> /\ log[Len(log)].op = op
\* What get_agent_list answers when no worker has an agent.
EmptyList == [i \in 1 .. NumWorkers |-> {}]

\* C14: when delete_all_agents has returned, with no other call in flight,
\* the routing table is empty and so is the pool of every worker, and a
\* get_agent_list that follows returns an empty list.
C14_EmptyAfterDeleteAll ==
    \A f \in SeqThreads :
        /\ Returned(f, "delete_all") =>
              /\ \A a \in AgentIds : map[a] = NoWorker
              /\ \A w \in Workers : agent_pool[w] = {}
        /\ (LastAnswered("delete_all") /\ Returned(f, "list")) =>
              loc[f].ret.message = EmptyList

\* An agent was created and cloned, delete_all_agents was answered and the
\* get_agent_list after it has returned.
C14_Witness ==
    /\ Len(log) = 3
    /\ log[1].op = "create" /\ log[1].ret.ok
    /\ log[2].op = "clone" /\ log[2].ret.ok
    /\ log[3].op = "delete_all" /\ log[3].ret.ok
    /\ \E f \in SeqThreads : Returned(f, "list")

(* ------------------------------- C15 ---------------------------------- *)
\* The id a clone_agent call returned.
ClonedId(ret) == ret.message[2]
\* The list that get_agent_list returned names agent a.
Listed(ret, a) == \E i \in 1 .. Len(ret.message) : a \in ret.message[i]

\* C15: a clone_agent(a) that succeeded on an agent owned by worker w has
\* created an agent with a new id in the pool of w and mapped that id to w;
\* a and its mapping are as before, and a get_agent_list that follows names
\* both agents.
C15_CloneAddsAgent ==
    \A f \in SeqThreads :
        /\ (Returned(f, "clone") /\ loc[f].ret.ok) =>
              LET a == loc[f].agent
                  w == loc[f].wid
              IN /\ ClonedId(loc[f].ret) /= a
                 /\ ClonedId(loc[f].ret) \in agent_pool[w]
                 /\ map[ClonedId(loc[f].ret)] = w
                 /\ a \in agent_pool[w]
                 /\ map[a] = w
        /\ (LastAnswered("clone") /\ log[Len(log)].ret.ok
                /\ Returned(f, "list")) =>
              /\ Listed(loc[f].ret, log[Len(log)].agent)
              /\ Listed(loc[f].ret, ClonedId(log[Len(log)].ret))

\* An agent was created and cloned, and the get_agent_list after the clone
\* has returned.
C15_Witness ==
    /\ Len(log) = 2
    /\ log[1].op = "create" /\ log[1].ret.ok
    /\ log[2].op = "clone" /\ log[2].ret.ok
    /\ \E f \in SeqThreads : Returned(f, "list")

(* ------------------- the payload channel: C16, C17 -------------------- *)
\* Thread f has executed set_content / set_content and get_content.
Written(f) == pc[f] = "written" /\ loc[f].op = "content"
ReadBack(f) == pc[f] = "done" /\ loc[f].op = "content"

\* C16: set_content puts a payload of length L in the small-object slot of
\* its call-id when L <= small_obj_size and in a named segment when
\* L > small_obj_size, never in both: a payload of exactly small_obj_size
\* bytes is in the slot, one of small_obj_size + 1 bytes in the segment.
C16_PathByLength ==
    \A f \in Threads :
        Written(f) =>
            LET c == loc[f].cid
                seg == shm[<<loc[f].msg, c>>]
                content == loc[f].ret.written
            IN IF content.n <= SmallObjSize
               THEN /\ slot[c] = [occupied |-> TRUE, data |-> content]
                    /\ seg = NoSeg
               ELSE /\ ~slot[c].occupied
                    /\ seg = content

\* One payload of exactly small_obj_size bytes and one of small_obj_size + 1
\* bytes have been written.
C16_Witness ==
    \E f, g \in Threads :
        /\ Written(f) /\ loc[f].ret.written.n = SmallObjSize
        /\ Written(g) /\ loc[g].ret.written.n = SmallObjSize + 1

\* C17: get_content after set_content on the same direction and call-id
\* returns the bytes that were written, on the small and on the named path,
\* the empty payload included; after the read the slot is not occupied and
\* the named segment is unlinked.
C17_RoundTrip ==
    [][\A f \in Threads :
          (Written(f) /\ pc'[f] = "done") =>
              /\ loc'[f].ret.read = loc[f].ret.written
              /\ ~slot'[loc[f].cid].occupied
              /\ shm'[<<loc[f].msg, loc[f].cid>>] = NoSeg]_vars

\* An empty payload and one that took the named path have been read back.
C17_Witness ==
    \E f, g \in Threads :
        /\ ReadBack(f) /\ loc[f].ret.written = EmptyStr
        /\ ReadBack(g) /\ loc[g].ret.written.n > SmallObjSize

(* ------------------------ call_agent_func: C18 ------------------------ *)
\* C18: call_agent_func fails with INVALID_ARGUMENT when target_func is
\* neither "_reply" nor "_observe", and when the agent id is not in the
\* routing table (for a reply with the message "Try to reply a non-existent
\* agent [id]."); the call is answered at once, nothing is dispatched and
\* no response with ok = true is sent.
C18_InvalidArgument ==
    [][\A f \in Threads, tf \in TargetFuncs, a \in AgentIds, m \in Msgs :
          (call_agent_func(f, tf, a, m)
              /\ (tf \notin {"_reply", "_observe"} \/ map[a] = NoWorker)) =>
              /\ pc'[f] = "done"
              /\ RpcAnswer(loc'[f]).status = "INVALID_ARGUMENT"
              /\ ~RpcAnswer(loc'[f]).ok
              /\ tf = "_reply" =>
                    RpcAnswer(loc'[f]).message =
                        <<"Try to reply a non-existent agent", a>>
              /\ UNCHANGED <<ipcVars, agentVars, taskVars>>]_vars

\* The client has been refused a call of an unsupported target_func and a
\* reply to an agent the table does not hold.
C18_Witness ==
    \E i, j \in 1 .. Len(log) :
        /\ log[i].op = "call_agent_func"
        /\ log[i].answer.status = "INVALID_ARGUMENT"
        /\ log[j].op = "reply"
        /\ log[j].answer.status = "INVALID_ARGUMENT"
        /\ log[j].answer.message =
              <<"Try to reply a non-existent agent", log[j].agent>>

(* ------------------------- create_agent: C19 -------------------------- *)
\* A create_agent for an id the table holds is answered at once with
\* ok = false and "already exists"; no call is dispatched, the table and
\* the pools stay as they are.
C19_DuplicateStep ==
    \A f \in Threads, a \in ClientAgents :
        (call_create_agent(f, a) /\ map[a] /= NoWorker) =>
            /\ pc'[f] = "done"
            /\ RpcAnswer(loc'[f]) =
                  [status |-> "OK", ok |-> FALSE,
                   message |-> <<"already exists", a>>]
            /\ UNCHANGED <<ipcVars, agentVars, taskVars>>
\* create_agent answers ok = true exactly when its call created the agent:
\* then the agent is in the pool of the chosen worker and in the table; a
\* refused duplicate was never dispatched, and after an error of the agent
\* host the agent is nowhere.
C19_OkIffCreated ==
    \A f \in SeqThreads :
        Returned(f, "create") =>
            LET a == loc[f].agent
                w == loc[f].wid
            IN IF RpcAnswer(loc[f]).ok
               THEN w \in Workers /\ a \in agent_pool[w] /\ map[a] = w
               ELSE \/ /\ loc[f].ret.message = <<"already exists", a>>
                       /\ w = NoWorker
                       /\ map[a] /= NoWorker
                    \/ /\ loc[f].ret.message = ErrorBytes(a).v
                       /\ AgentAbsent(a)
\* C19: create_agent with an agent_id that is in the routing table returns
\* ok = false with "Agent with agent_id [id] already exists.", dispatches
\* no call and leaves the table and the pools unchanged; create_agent
\* answers ok = true if and only if the agent was created.
C19_DuplicateCreateRefused == []C19_OkIffCreated /\ [][C19_DuplicateStep]_vars

\* The client created an agent and its second create_agent of that id has
\* been refused.
C19_Witness ==
    \E f \in SeqThreads, i \in 1 .. Len(log) :
        /\ log[i].op = "create" /\ log[i].answer.ok
        /\ Returned(f, "create") /\ loc[f].agent = log[i].agent
        /\ loc[f].ret.message = <<"already exists", loc[f].agent>>

(* --------------------- an agent's reply throws: C20 ------------------- *)
\* The reply of task t threw: set_result(callback_id) wrote ok = false.
Raised(t) == written[t] /= None /\ ~written[t].v[2]

\* The step in which agent.reply throws is a set_result(callback_id) with
\* ok = false; the child lives on and the handler gives back the pool lock
\* and the interpreter guard.
C20_RaiseStep ==
    \A cb \in CallIds :
        reply_worker_end(cb, TRUE) =>
            /\ sem'[cb] = sem[cb] + 1
            /\ written'[rr[cb].tid] = MsgReturnBytes(FALSE, rr[cb].tid, "e")
            /\ wstate' = wstate
            /\ readers'[rr[cb].w] = readers[rr[cb].w] - 1
            /\ gil'[rr[cb].w] = NoHolder
\* update_placeholder on such a task answers ok = false with the message
\* of the exception, not with "Task [id] not exists."; every child serves.
C20_RaisedAnswer ==
    /\ \A f \in Threads :
          (UpdateReturned(f) /\ Raised(loc[f].tid)) =>
              /\ ~loc[f].ret.ok
              /\ loc[f].ret.message =
                    <<"reply", loc[f].tid, written[loc[f].tid].v[4]>>
              /\ loc[f].ret.message /= <<"Task not exists", loc[f].tid>>
    /\ (\E t \in TaskIds : Raised(t)) =>
          \A w \in Workers : wstate[w] = "serving"
\* C20: an exception raised by the agent's reply ends the task, not the
\* worker: reply_worker still executes set_result(callback_id), with
\* ok = false and the message of the exception, update_placeholder returns
\* ok = false with that message, and the worker keeps serving later calls.
C20_ExceptionEndsTaskOnly == []C20_RaisedAnswer /\ [][C20_RaiseStep]_vars

\* The reply of task 0 threw and update_placeholder(0) has answered so, and
\* the same worker has since completed the reply of task 1.
C20_Witness ==
    \E f \in Threads :
        /\ UpdateReturned(f) /\ loc[f].tid = 0 /\ Raised(0)
        /\ written[1] /= None /\ written[1].v[2]

(* ----------------------- set_model_configs: C21 ---------------------- *)
\* Front-end thread f executes call_set_model_configs.
Configuring(f) == loc[f].op = "set_model_configs"

\* The commands go out in worker order, one for each worker passed so far;
\* every command sent is awaited or has had its result consumed; the call
\* has returned only with the result of every worker consumed.
C21_Progress ==
    \A f \in Threads :
        Configuring(f) =>
            /\ pc[f] \in {"avail", "callid"} =>
                  Len(loc[f].ids) = loc[f].wid /\ loc[f].ret.message = <<>>
            /\ pc[f] = "result" =>
                  Len(loc[f].ids) + Len(loc[f].ret.message) = NumWorkers
            /\ pc[f] = "done" =>
                  loc[f].ids = <<>> /\ Len(loc[f].ret.message) = NumWorkers
\* A dispatch of the call writes a set_model_configs command for the next
\* worker, posts that worker's function-ready once and touches no other
\* worker.
C21_DispatchStep ==
    \A f \in Threads :
        (Configuring(f) /\ pc[f] = "callid" /\ pc'[f] /= "callid") =>
            LET w == loc[f].wid
            IN /\ w = Len(loc[f].ids)
               /\ Len(loc'[f].ids) = w + 1
               /\ cmd'[w] = [call_id |-> loc'[f].ids[w + 1],
                             func |-> set_model_configs]
               /\ ready'[w] = ready[w] + 1
               /\ \A v \in Workers \ {w} :
                     cmd'[v] = cmd[v] /\ ready'[v] = ready[v]
\* A result of the call is consumed from a completion semaphore that was
\* posted, the one of the oldest command not yet consumed.
C21_ConsumeStep ==
    \A f \in Threads :
        (Configuring(f) /\ pc[f] = "result" /\ loc'[f] /= loc[f]) =>
            /\ sem[Head(loc[f].ids)] = 1
            /\ sem'[Head(loc[f].ids)] = 0
            /\ loc'[f].ids = Tail(loc[f].ids)
            /\ Len(loc'[f].ret.message) = Len(loc[f].ret.message) + 1
\* C21: one call of set_model_configs dispatches exactly one
\* set_model_configs command to each worker 0 .. num_workers - 1, and it
\* returns only after it has consumed the result of every one of them.
C21_BroadcastToEveryWorker ==
    []C21_Progress /\ [][C21_DispatchStep /\ C21_ConsumeStep]_vars

\* One call has returned while the call of another thread, issued
\* meanwhile, still waits for results.
C21_Witness ==
    \E f, g \in Threads :
        /\ Configuring(f) /\ pc[f] = "done"
        /\ Configuring(g) /\ pc[g] = "result" /\ loc[g].ret.message /= <<>>

(* ------------------------ delete_all_agents: C22 ---------------------- *)
\* The exclusive section of call_delete_all_agents: its holder is the
\* broadcasting call, it ends with the clear, and at the clear a command
\* has gone to every worker.
C22_OneSection ==
    \A f \in Threads :
        /\ maplock = f =>
              /\ loc[f].op = "delete_all"
              /\ pc[f] \in {"avail", "callid", "clear"}
        /\ (loc[f].op = "delete_all" /\ pc[f] = "clear") =>
              maplock = f /\ Len(loc[f].ids) = NumWorkers
        /\ (loc[f].op = "delete_all" /\ pc[f] \in {"result", "done"}) =>
              maplock /= f
\* An agent leaves a pool through delete_agent_worker, whose call has
\* erased the entry before the result is awaited, or through the broadcast:
\* an entry whose agent is not in the pool of its worker is the entry of an
\* agent the broadcast removed.  No lookup can see one: outside the
\* exclusive section there is none.
C22_NoEntryOfRemovedAgent ==
    maplock = Free =>
        \A a \in AgentIds :
            \/ map[a] = NoWorker
            \/ a \in agent_pool[map[a]]
            \/ \E f \in Threads : loc[f].op = "delete" /\ loc[f].agent = a
                                     /\ pc[f] \in {"avail", "callid", "erase"}
\* C22: delete_all_agents dispatches its command to every worker and clears
\* the routing table inside one exclusive section on the table, and once
\* the section has ended no lookup sees a partially cleared table or an
\* entry of an agent that the broadcast removed.
C22_ClearInOneSection == C22_OneSection /\ C22_NoEntryOfRemovedAgent

(* -------------------------- download_file: C23 ------------------------ *)
\* The pieces are runs of at most BufferSize bytes that follow one another
\* from offset 0 up to offset upto.
RECURSIVE InFileOrder(_, _)
InFileOrder(pieces, upto) ==
    IF pieces = <<>> THEN upto = 0
    ELSE LET last == pieces[Len(pieces)]
         IN /\ 0 <= last.n /\ last.n <= BufferSize
            /\ last.from + last.n = upto
            /\ InFileOrder(SubSeq(pieces, 1, Len(pieces) - 1), last.from)
Downloading(f) == loc[f].op = "download"

\* While the loop runs the pieces sent are the file up to the read offset,
\* all full buffers; a download that returned OK has sent the whole file,
\* and the last piece is the one that met the end of the file.
C23_Pieces ==
    \A f \in Threads :
        /\ (Downloading(f) /\ pc[f] = "read") =>
              /\ InFileOrder(loc[f].sent, loc[f].file.pos)
              /\ loc[f].file.pos = Len(loc[f].sent) * BufferSize
              /\ loc[f].file.pos <= loc[f].file.size
        /\ (Downloading(f) /\ pc[f] = "done" /\ loc[f].ret.ok) =>
              /\ InFileOrder(loc[f].sent, loc[f].file.size)
              /\ Len(loc[f].sent) = loc[f].file.size \div BufferSize + 1
              /\ loc[f].sent[Len(loc[f].sent)].n < BufferSize
\* The answers: NOT_FOUND for a missing file, with nothing sent; INTERNAL
\* on a read error; ABORTED on a failed send; otherwise the piece is sent
\* and the call returns OK exactly when that read met the end of the file.
C23_Step ==
    \A f \in Threads :
        /\ \A file \in Files :
              (download_file(f, file) /\ ~file.exists) =>
                  /\ pc'[f] = "done"
                  /\ loc'[f].ret.message = "NOT_FOUND"
                  /\ loc'[f].sent = <<>>
        /\ \A write_ok \in BOOLEAN :
              download_file_loop(f, TRUE, write_ok) =>
                  pc'[f] = "done" /\ loc'[f].ret.message = "INTERNAL"
        /\ download_file_loop(f, FALSE, FALSE) =>
              pc'[f] = "done" /\ loc'[f].ret.message = "ABORTED"
        /\ download_file_loop(f, FALSE, TRUE) =>
              /\ Len(loc'[f].sent) = Len(loc[f].sent) + 1
              /\ IF loc[f].file.size - loc[f].file.pos < BufferSize
                 THEN pc'[f] = "done" /\ loc'[f].ret.message = "OK"
                 ELSE pc'[f] = "read"
\* The loop ends, whatever the size of the file.
C23_Terminates ==
    \A f \in Threads : (Downloading(f) /\ pc[f] = "read") ~> pc[f] = "done"
\* C23: download_file on an existing readable file sends pieces of at most
\* 1 MiB each, in file order, whose concatenation is the content of the
\* file, and returns OK right after the piece on which the end of the file
\* was met, so the loop ends for every file size; a missing file yields
\* NOT_FOUND, a read error INTERNAL and a failed send ABORTED.
C23_DownloadSendsFile == []C23_Pieces /\ [][C23_Step]_vars /\ C23_Terminates

\* A file of three buffers and a half was sent in pieces of 1, 1, 1 and
\* 0.5 MiB, and a file of exactly two buffers in pieces of 1, 1 and 0 MiB.
C23_Witness ==
    \E f, g \in Threads :
        /\ Downloading(f) /\ pc[f] = "done" /\ loc[f].ret.ok
        /\ [i \in 1 .. Len(loc[f].sent) |-> loc[f].sent[i].n] =
              <<BufferSize, BufferSize, BufferSize, BufferSize \div 2>>
        /\ Downloading(g) /\ pc[g] = "done" /\ loc[g].ret.ok
        /\ [i \in 1 .. Len(loc[g].sent) |-> loc[g].sent[i].n] =
              <<BufferSize, BufferSize, 0>>

(* ------------------- the worker processes: C24 ------------------------ *)
\* The children the constructor has forked.
Forked == {i \in Children : child[i].st /= "none"}
\* min(a, b) and the clamp to at least 1.
Min(a, b) == IF a < b THEN a ELSE b
AtLeastOne(n) == IF n < 1 THEN 1 ELSE n

\* C24: when the constructor has returned, the number of worker processes
\* it forked is min(num_workers, hardware_concurrency()) clamped to at
\* least 1, for every requested num_workers.
C24_PoolSizeCappedByCores ==
    main.st = "serving" =>
        Cardinality(Forked) = AtLeastOne(Min(main.num_workers, main.cores))

(* --------------------------- teardown: C25 ---------------------------- *)
\* The names the constructor has created so far.
Created ==
    IF main.st = "new" THEN {}
    ELSE BaseNames \cup UNION {WorkerNames(i) : i \in Forked}
\* As long as a child that was forked has not been waited for, every name
\* exists.
C25_NamesKept ==
    (\E i \in Forked : child[i].st /= "reaped") => Created \subseteq names
\* A name is unlinked or removed only by ~Worker in the main process, and
\* by then every child has been sent SIGINT and has been waited for.
C25_UnlinkStep ==
    (\E n \in names : n \notin names') =>
        /\ dtor_unlink
        /\ \A i \in Forked : child[i].killed /\ child[i].st = "reaped"
\* A child that runs signal_handler unlinks nothing; when it runs the
\* teardown (it inherited the global worker) it signals the main process.
C25_ChildStep ==
    \A p \in Children :
        signal_handler(p) =>
            /\ names' = names
            /\ (main.inherited /\ main.st /= "exited") => main'.sigint
ResultOf(sl, sh, c) == get_content_val(sl, sh, "result", c)

\* The completion semaphore is 0 or 1, and 0 for an id of the free pool.
C26_SemBound ==
    \A c \in CallIds : sem[c] \in {0, 1} /\ (InSeq(pool, c) => sem[c] = 0)
\* A post is the first set_result of the exchange and leaves the payload
\* in the channel; a decrement takes one post of an id that is handed out,
\* finds the payload, consumes it and puts the id in the pool.
C26_Step ==
    \A c \in CallIds :
        /\ sem'[c] > sem[c] =>
              /\ sem'[c] = sem[c] + 1
              /\ nset[c] = 0 /\ nset'[c] = 1
              /\ ~InSeq(pool, c) /\ ~InSeq(pool', c)
              /\ ResultOf(slot', shm', c) /= NoSeg
        /\ sem'[c] < sem[c] =>
              /\ sem'[c] = sem[c] - 1
              /\ nset[c] = 1
              /\ ResultOf(slot, shm, c) /= NoSeg
              /\ ChannelFree(slot', shm', c)
              /\ ~InSeq(pool, c) /\ InSeq(pool', c)
\* C26: the completion semaphore of a call-id is 0 whenever the id is in
\* the free pool and never exceeds 1: within one exchange set_result posts
\* it exactly once, after the payload was written, and get_result
\* decrements it exactly once, before reading the payload and returning the
\* id.
C26_SemaphoreZeroOrOne == []C26_SemBound /\ [][C26_Step]_vars

\* Two results are posted and not yet fetched, one in a small slot and one
\* in a named segment, after an earlier exchange has fetched its result.
C26_Witness ==
    /\ \E c, d \in CallIds :
          /\ c /= d /\ sem[c] = 1 /\ sem[d] = 1
          /\ slot[c].occupied
          /\ ~slot[d].occupied /\ shm[<<"result", d>>] /= NoSeg
    /\ \E f \in Threads : pc[f] = "done" /\ loc[f].op = "reply"

(* ------------------------- task-ids: C27, C28 ------------------------- *)
\* The task at index i (from 0) has the id of the front plus i.
C27_Consecutive ==
    \A i \in 1 .. Len(tasks) : tasks[i].id = tasks[1].id + (i - 1)
\* C27: in every reachable state the tasks of the FIFO have consecutive
\* task-ids in queue order (the task at index i has task-id
\* front.task_id + i), and _num_tasks never decreases.
C27_ConsecutiveTaskIds ==
    []C27_Consecutive /\ [][num_tasks' >= num_tasks]_vars

\* The FIFO holds two tasks and the counter has passed both.
C27_Witness ==
    /\ Len(tasks) = 2
    /\ tasks[2].id = tasks[1].id + 1
    /\ num_tasks = 2

\* Reply f has its task-id and has not yet returned to its client.
HasTaskId(f) ==
    /\ loc[f].op = "reply"
    /\ pc[f] \in {"cbid", "avail", "callid", "result", "done"}
    /\ loc[f].tid >= 0
\* The replies that know their task-id have different ones, all below the
\* counter.
C28_Unique ==
    \A f \in Threads :
        HasTaskId(f) =>
            /\ loc[f].tid \in 0 .. (num_tasks - 1)
            /\ \A g \in Threads \ {f} : HasTaskId(g) => loc[g].tid /= loc[f].tid
\* The caller that acquires the tail mutex gets the number of acquisitions
\* before its own as task-id; the task enqueued is the one of the holder of
\* the mutex, its id is the last one assigned and larger than every id of
\* the FIFO.
C28_Step ==
    /\ \A f \in Threads :
          (tail /= f /\ tail' = f) =>
              /\ tail = Free
              /\ loc'[f].tid = num_tasks
              /\ num_tasks' = num_tasks + 1
    /\ num_tasks' /= num_tasks =>
          \E f \in Threads : tail /= f /\ tail' = f
    /\ Len(tasks') > Len(tasks) =>
          /\ tail \in Threads
          /\ tasks' = Append(tasks, tasks'[Len(tasks')])
          /\ tasks'[Len(tasks')].id = loc[tail].tid
          /\ tasks'[Len(tasks')].id = num_tasks - 1
          /\ \A i \in 1 .. Len(tasks) : tasks[i].id < tasks'[Len(tasks')].id
\* C28: task-ids are assigned in the order in which call_reply callers
\* acquire the tail mutex: the first reply gets task-id 0, each later one
\* the previous id plus 1, no two replies get the same task-id even when
\* they overlap, and tasks are enqueued in the order of their ids.
C28_TaskIdsInTailOrder ==
    (num_tasks = 0) /\ []C28_Unique /\ [][C28_Step]_vars

\* Two overlapping replies hold the ids 0 and 1; the one with id 1 waits
\* for the worker while the other has its answer.
C28_Witness ==
    \E f, g \in Threads :
        /\ HasTaskId(f) /\ HasTaskId(g)
        /\ loc[f].tid = 0 /\ loc[g].tid = 1
        /\ pc[f] = "done" /\ pc[g] = "avail"
        /\ Len(tasks) = 2

(* ----------------------- owned-worker call: C29 ----------------------- *)
\* The calls that take their worker from the routing table or go to every
\* worker, as opposed to the free-worker call of create_agent.
OwnedOps == {"delete", "clone", "reply", "observe", "memory"} \cup Broadcasts

\* call_worker_func past its wait: the call-id at the front of the pool is
\* taken, the command slot of the worker holds (call_id, function_id), the
\* args are in the channel of the call-id when the call has args and the
\* channel is left empty when it has none, function-ready is posted once
\* and no worker-available semaphore is touched.
C29_PostStep ==
    \A f \in Threads :
        (loc[f].op \in OwnedOps /\ pc[f] = "callid" /\ pc'[f] /= "callid") =>
            LET c == FrontCallId(pool)
                w == loc[f].wid
                args == ArgsOf(loc[f])
            IN /\ pool' = Tail(pool)
               /\ cmd'[w] = [call_id |-> c, func |-> FuncOf(loc[f])]
               /\ IF args = None
                  THEN ChannelFree(slot', shm', c)
                  ELSE get_content_val(slot', shm', "args", c) = args
               /\ ready' = [ready EXCEPT ![w] = @ + 1]
               /\ avail' = avail
\* No step of an owned-worker call lowers a worker-available semaphore.
C29_NoWaitStep ==
    \A f \in Threads :
        (loc[f].op \in OwnedOps /\ pc'[f] /= pc[f]) =>
            \A w \in Workers : avail'[w] >= avail[w]
\* The claim as stated: an owned-worker call allocates a call-id, writes
\* the command header, writes the args when non-null and posts
\* function-ready, and does not wait on the worker's worker-available
\* semaphore.
C29_OwnedCallDoesNotWait == [][C29_PostStep /\ C29_NoWaitStep]_vars

\* An owned-worker call comes to get_call_id only through the sem_wait on
\* the worker-available semaphore of its worker, which it lowers by one.
C29_WaitStep ==
    \A f \in Threads :
        /\ (loc[f].op \in OwnedOps /\ pc[f] = "avail" /\ pc'[f] /= "avail") =>
              /\ pc'[f] = "callid"
              /\ avail[loc[f].wid] > 0
              /\ avail' = [avail EXCEPT ![loc[f].wid] = @ - 1]
        /\ (loc'[f].op \in OwnedOps /\ pc[f] /= "callid" /\ pc'[f] = "callid")
              => pc[f] = "avail"
\* C29 (amended): an owned-worker call first waits on the worker-available
\* semaphore of its worker and lowers it by one, and then allocates a
\* call-id, writes the command header, writes the args when non-null and
\* posts function-ready.
C29_OwnedCallWaits == [][C29_PostStep /\ C29_WaitStep]_vars

\* A delete has taken the worker-available slot of the worker that owns
\* its agent and stands before get_call_id.
C29_Witness ==
    \E f \in Threads :
        /\ loc[f].op = "delete" /\ pc[f] = "callid"
        /\ avail[loc[f].wid] = 0
        /\ wstate[loc[f].wid] = "serving"

\* A broadcast waits for the worker-available slot of a child that has not
\* yet entered its loop.
C29_BlockedWitness ==
    \E f \in Threads :
        /\ loc[f].op \in Broadcasts /\ pc[f] = "avail"
        /\ avail[loc[f].wid] = 0
        /\ wstate[loc[f].wid] = "forked"

(* ----------------------- free-worker call: C30 ------------------------ *)
\* A create_agent call makes at most 4 * num_workers probes, and the index
\* it holds past find_avail_worker_id is a worker index.
C30_Probes ==
    \A f \in Threads :
        /\ loc[f].cnt <= 4 * NumWorkers
        /\ (loc[f].op = "create" /\ pc[f] \in {"callid", "result", "insert"})
              => loc[f].wid \in 0 .. (NumWorkers - 1)
\* A failed probe lowers no semaphore and counts; find_avail_worker_id
\* returns i by lowering worker-available[i] by one and no other semaphore,
\* after the loop only on the index of the last probe; a call comes to
\* get_call_id only that way, and the post of its command touches no
\* worker-available semaphore; nothing else lowers one.
C30_Step ==
    /\ \A f \in Threads :
          /\ (pc[f] = "find" /\ pc'[f] = "find" /\ loc'[f] /= loc[f]) =>
                /\ avail' = avail
                /\ loc'[f].cnt = loc[f].cnt + 1
                /\ loc'[f].wid \in Workers /\ avail[loc'[f].wid] = 0
          /\ (pc[f] = "find" /\ pc'[f] = "callid") =>
                /\ loc'[f].wid \in Workers
                /\ avail[loc'[f].wid] > 0
                /\ avail' = [avail EXCEPT ![loc'[f].wid] = @ - 1]
                /\ loc[f].cnt = 4 * NumWorkers => loc'[f].wid = loc[f].wid
          /\ (pc[f] /= "callid" /\ pc'[f] = "callid") => pc[f] = "find"
          /\ (pc[f] = "callid" /\ pc'[f] /= "callid") =>
                /\ cmd'[loc[f].wid].func = create_agent
                /\ ready' = [ready EXCEPT ![loc[f].wid] = @ + 1]
                /\ avail' = avail
    /\ \A w \in Workers :
          avail'[w] < avail[w] =>
              \E f \in Threads :
                  pc[f] = "find" /\ pc'[f] = "callid" /\ loc'[f].wid = w
\* C30: find_avail_worker_id returns a worker index i in [0, num_workers)
\* only after it has decremented worker-available[i] exactly once and has
\* decremented no other worker's semaphore: it makes at most 4*num_workers
\* non-blocking probes and then blocks on the last probed index; the
\* command of a free-worker call is posted only after that consumption.
C30_ReturnsConsumedWorker == []C30_Probes /\ [][C30_Step]_vars

\* One call has used up its probes and got its worker from the blocking
\* wait, while the other call got its worker from a probe after failed ones.
C30_Witness ==
    \E f, g \in Threads :
        /\ pc[f] = "callid" /\ loc[f].cnt = 4 * NumWorkers
        /\ pc[g] \in {"callid", "result"}
        /\ loc[g].cnt \in 1 .. (4 * NumWorkers - 1)
        /\ loc[f].wid /= loc[g].wid

(* ------------------------ child main loop: C31 ------------------------ *)
\* The handlers of worker w that have been started and have not ended.
HandlersOf(w) == {c \in CallIds : h[c] /= None /\ h[c].w = w}

\* A post of worker-available[w] is either the one of the child's start or
\* the one that ends a turn of its loop; a turn takes one function-ready
\* post, reads the pair of the command slot, starts the one handler of that
\* pair and posts worker-available once, whatever the handlers of the child
\* are doing.
C31_Step ==
    \A w \in Workers :
        /\ avail'[w] > avail[w] =>
              /\ avail'[w] = avail[w] + 1
              /\ \/ /\ wstate[w] = "forked" /\ wstate'[w] = "serving"
                    /\ ready' = ready /\ h' = h
                 \/ /\ wstate[w] = "serving" /\ ready'[w] = ready[w] - 1
        /\ (wstate[w] = "forked" /\ wstate'[w] = "serving") =>
              avail'[w] = avail[w] + 1
        /\ ready'[w] < ready[w] =>
              /\ ready'[w] = ready[w] - 1
              /\ avail'[w] = avail[w] + 1
              /\ cmd[w] /= NoCmd
              /\ HandlersOf(w)' = HandlersOf(w) \cup {cmd[w].call_id}
              /\ h'[cmd[w].call_id] = NewHandler(w, cmd[w].func)
              /\ \A c \in CallIds \ {cmd[w].call_id} : h'[c] = h[c]
              /\ rr' = rr
\* A child that serves and has a function-ready post takes it, also while a
\* reply runs in it.
C31_Accepts ==
    \A w \in Workers :
        (wstate[w] = "serving" /\ ready[w] > 0) => ENABLED worker_loop(w)
\* C31: each worker child posts its worker-available semaphore exactly once
\* at startup and then exactly once per command it reads: for every post of
\* function-ready[i] the worker reads one (call_id, function_id) pair from
\* its command slot, starts one detached handler and re-posts
\* worker-available[i] without waiting for the handler to finish, so a
\* long-running reply does not stop the worker from accepting the next
\* command.
C31_OnePostPerCommand == []C31_Accepts /\ [][C31_Step]_vars

\* While a reply runs in a child, the child has read the next command and
\* started its handler, and its worker-available slot is posted again.
C31_Witness ==
    \E w \in Workers, cb \in CallIds, c \in CallIds :
        /\ rr[cb] /= None /\ rr[cb].w = w
        /\ h[c] /= None /\ h[c].w = w /\ h[c].st = "new"
        /\ avail[w] = 1

(* ------------------------ reply handler: C32 -------------------------- *)
\* The reply handler started for call-id c has not yet read its args.
ReplyHandlerNew(c) == h[c] /= None /\ h[c].fn = reply /\ h[c].st = "new"

\* Between its two set_result calls a reply handler has made none on its
\* callback-id, and the callback-id is handed out.
C32_Between ==
    \A cb \in CallIds :
        rr[cb] /= None =>
            nset[cb] = 0 /\ sem[cb] = 0 /\ ~InSeq(pool, cb)
\* The first step of the handler is set_result(call_id) with the task-id,
\* on an id other than the callback-id, which it leaves alone; the end of
\* agent.reply, normal or by exception, is set_result(callback_id) with the
\* serialized MsgReturn and the end of the handler; these are the only
\* set_result calls a reply handler makes.
C32_Step ==
    /\ \A c \in CallIds :
          (ReplyHandlerNew(c) /\ h'[c] = None) =>
              \E cb \in CallIds \ {c} :
                  /\ rr[cb] = None /\ rr'[cb] /= None
                  /\ sem'[c] = sem[c] + 1 /\ nset'[c] = 1
                  /\ ResultOf(slot', shm', c) = TaskIdBytes(rr'[cb].tid)
                  /\ sem'[cb] = sem[cb] /\ nset'[cb] = nset[cb]
    /\ \A cb \in CallIds, raised \in BOOLEAN :
          reply_worker_end(cb, raised) =>
              /\ sem'[cb] = sem[cb] + 1 /\ nset'[cb] = 1
              /\ ResultOf(slot', shm', cb) =
                    MsgReturnBytes(~raised, rr[cb].tid,
                                   IF raised THEN "e" ELSE rr[cb].msg)
              /\ rr'[cb] = None
              /\ \A c \in CallIds \ {cb} : sem'[c] = sem[c]
    /\ \A cb \in CallIds :
          (rr[cb] /= None /\ rr'[cb] = None) => sem'[cb] = sem[cb] + 1
    /\ \A c \in CallIds :
          sem'[c] > sem[c] =>
              \/ ReplyHandlerNew(c) /\ h'[c] = None
              \/ rr[c] /= None /\ rr'[c] = None
C33_GetCallIdReturns ==
    \A f \in Threads :
        /\ (pc[f] = "cbid") ~> (pc[f] /= "cbid")
        /\ (pc[f] = "callid") ~> (pc[f] /= "callid")

\* Every call-id is held as the callback-id of a task whose reply has not
\* been dispatched, and every front-end thread stands in call_worker_func,
\* in get_call_id or before it.
C33_Stuck ==
    /\ pool = <<>>
    /\ \A f \in Threads : pc[f] \in {"avail", "callid"} /\ loc[f].op = "reply"
    /\ \E f \in Threads : pc[f] = "callid"
    /\ \A c \in CallIds : \E t \in TaskIds : TaskHolds(t, c)
    /\ \A c \in CallIds : h[c] = None /\ rr[c] = None

(* ------------------------- command slot: C34 -------------------------- *)
\* The front-end threads that have acquired worker w and not yet posted its
\* function-ready semaphore.
Acquired(w) == {f \in Threads : pc[f] = "callid" /\ loc[f].wid = w}

\* Worker-available and function-ready of a worker never hold more than one
\* post together, at most one thread stands between the acquisition of the
\* worker and its post, and the slot holds a command exactly while a
\* function-ready post is pending, the command of a call-id that is handed
\* out and has no handler yet.
C34_OneOwner ==
    \A w \in Workers :
        /\ avail[w] + ready[w] <= 1
        /\ Cardinality(Acquired(w)) <= 1
        /\ avail[w] + ready[w] + Cardinality(Acquired(w)) <= 1
        /\ ready[w] = 0 <=> cmd[w] = NoCmd
        /\ ready[w] = 1 =>
              /\ cmd[w].call_id \in CallIds
              /\ ~InSeq(pool, cmd[w].call_id)
              /\ h[cmd[w].call_id] = None
\* A command is written into an empty slot by the thread that acquired the
\* worker, together with its function-ready post; the child reads the pair
\* that was written and starts the handler of that call-id; a handler is
\* started in no other way.
C34_Step ==
    /\ \A w \in Workers :
          /\ (cmd'[w] /= cmd[w] /\ cmd'[w] /= NoCmd) =>
                /\ cmd[w] = NoCmd
                /\ ready'[w] = ready[w] + 1
                /\ \E f \in Acquired(w) :
                      /\ pc'[f] /= "callid"
                      /\ cmd'[w] = [call_id |-> FrontCallId(pool),
                                    func |-> FuncOf(loc[f])]
          /\ ready'[w] > ready[w] => cmd'[w] /= cmd[w]
          /\ ready'[w] < ready[w] =>
                /\ h'[cmd[w].call_id] = NewHandler(w, cmd[w].func)
                /\ cmd'[w] = NoCmd
    /\ \A c \in CallIds :
          (h[c] = None /\ h'[c] /= None) =>
              \E w \in Workers : cmd[w].call_id = c /\ ready'[w] < ready[w]
\* C34: the command slot of worker i is never overwritten before the worker
\* has read it: worker-available[i] + function-ready[i] never exceeds 1, at
\* most one front-end thread at a time is between acquiring worker i and
\* posting function-ready[i], and the (call_id, function_id) pair the worker
\* reads after a function-ready post is the pair written by the thread that
\* made that post, so every dispatched call-id is handled exactly once.
C34_SlotNotOverwritten == []C34_OneOwner /\ [][C34_Step]_vars

\* One thread has acquired a worker and stands before its post while
\* another thread waits for the same worker.
C34_Witness ==
    \E f, g \in Threads, w \in Workers :
        /\ f /= g
        /\ pc[f] = "callid" /\ loc[f].wid = w
        /\ pc[g] = "avail" /\ loc[g].wid = w
        /\ avail[w] = 0 /\ ready[w] = 0

(* ------------------------- task lifetime: C35 ------------------------- *)
\* C35: a Task is never removed from the registry (and destroyed) while its
\* helper thread still uses it: as long as the helper thread of task t has
\* not left the task mutex, t is in the FIFO.
C35_TaskOutlivesHelper ==
    \A t \in TaskIds : helper[t] /= None => PosOf(tasks, t) /= 0

(* ------------------- guard and pool lock: C36 ------------------------- *)
\* C36: inside a worker the interpreter guard and the agent-pool lock never
\* deadlock: while the agent host may release and re-acquire the guard
\* during reply, the handler keeping its shared lock on the agent pool, a
\* delete handler that holds the guard and requests the exclusive pool lock
\* always gets it eventually and the reply always completes.
C36_GuardAndPoolLockProgress ==
    /\ \A c \in CallIds :
          HandlerAt(c, delete_agent, "run") ~> ~HandlerAt(c, delete_agent, "run")
    /\ \A cb \in CallIds : ReplyRunning(cb) ~> ~ReplyRunning(cb)

\* The reply handler keeps the shared pool lock and waits for the guard,
\* which the delete handler holds while it waits for the exclusive lock.
C36_Deadlock ==
    \E c, cb \in CallIds :
        /\ HandlerAt(c, delete_agent, "run")
        /\ ReplyRunning(cb) /\ ~rr[cb].gil /\ rr[cb].w = h[c].w
        /\ gil[h[c].w] = <<"h", c>>
        /\ readers[h[c].w] > 0

(* ------------------------ handler lookups: C37 ------------------------ *)
\* C37: every reply and delete_agent handler dispatched to a worker finds
\* its target agent in that worker's pool when it looks it up, under any
\* interleaving of front-end calls, including a call_reply whose
\* routing-table lookup precedes a concurrent delete_agent of the same
\* agent.
C37_HandlerFindsAgent ==
    /\ \A cb \in CallIds : rr[cb] /= None => rr[cb].found
    /\ \A c \in CallIds :
          (HandlerAt(c, delete_agent, "run") /\ readers[h[c].w] = 0) =>
              h[c].agent \in agent_pool[h[c].w]

(* ----------------------- small-object slot: C38 ----------------------- *)
\* A step writes a payload into slot c.
SlotWritten(c) == slot'[c].occupied /\ slot'[c] /= slot[c]

\* Every write into slot c finds its occupied flag at 0, or is the result
\* write of the handler of c that has read the args out of the slot just
\* before.
C38_Step ==
    \A c \in CallIds :
        SlotWritten(c) =>
            \/ ~slot[c].occupied
            \/ /\ h[c] /= None /\ h[c].st = "new" /\ h'[c] = None
               /\ slot[c].data = get_content_val(slot, shm, "args", c)
\* An occupied slot holds the args of a command that its handler has not
\* read, or a result that its reader has not fetched.
C38_Unread ==
    \A c \in CallIds :
        slot[c].occupied =>
            /\ ~InSeq(pool, c)
            /\ \/ sem[c] = 1
               \/ \E w \in Workers : cmd[w].call_id = c
               \/ h[c] /= None /\ h[c].st = "new"
\* C38: the small-object slot of call-id c, which the args and the result
\* directions of c share, is never overwritten while it holds a payload
\* that has not been read: every write into slot c happens when its
\* occupied flag is 0, across the front-end's args write, the worker's args
\* read, the worker's result write and the front-end's result read, and
\* also when c is handed out again while the reply handler of its previous
\* exchange is still running.
C38_SlotWrittenWhenFree == []C38_Unread /\ [][C38_Step]_vars

\* While a reply runs, the call-id its exchange has given back is handed out
\* to a delete_agent call, whose args stand unread in the slot.
C38_Witness ==
    \E cb, c \in CallIds, g \in Threads :
        /\ rr[cb] /= None /\ c /= cb
        /\ loc[g].op = "delete" /\ loc[g].cid = c /\ pc[g] \in {"erase", "result"}
        /\ slot[c].occupied /\ sem[c] = 0

(* ------------------------ unknown agent: C39 -------------------------- *)
\* The calls that begin with a lookup of their agent in the routing table.
RoutedOps == {"reply", "observe", "clone", "delete", "memory"}

\* A routed call on an id the table does not hold returns its error in the
\* step of the lookup, and that step changes nothing but the caller's own
\* locals: no call-id and no task-id is taken, no semaphore is posted or
\* waited on, and the routing table, the task registry and _num_tasks stay
\* as they are.  Only such a call returns in the step of the lookup.
C39_Step ==
    \A f \in Threads :
        (pc[f] = "idle" /\ pc'[f] /= "idle" /\ loc'[f].op \in RoutedOps) =>
            /\ map[loc'[f].agent] = NoWorker <=> pc'[f] = "done"
            /\ pc'[f] = "done" =>
                  /\ ~loc'[f].ret.ok
                  /\ loc'[f].cid = -1 /\ loc'[f].tid = -1 /\ loc'[f].cb = -1
                  /\ UNCHANGED <<pool, sem, avail, ready, cmd, slot, shm>>
                  /\ UNCHANGED <<map, agent_pool, tasks, num_tasks, helper>>
\* A routed call that has returned its not-found error holds nothing.
C39_HoldsNothing ==
    \A f \in Threads :
        (pc[f] = "done" /\ loc[f].op \in RoutedOps /\ loc[f].wid = NoWorker) =>
            /\ ~loc[f].ret.ok
            /\ loc[f].cid = -1 /\ loc[f].tid = -1 /\ loc[f].cb = -1
\* C39: call_reply, call_observe, call_clone_agent, call_delete_agent and
\* call_get_agent_memory on an agent id that is not in the routing table
\* return their error without taking a call-id or a task-id and without
\* posting or waiting on any worker semaphore, and they leave the routing
\* table, the task registry and _num_tasks unchanged.
C39_NotFoundChangesNothing == []C39_HoldsNothing /\ [][C39_Step]_vars

\* call_get_agent_memory stands at its return with the not-found error,
\* after three other routed calls, each of a different kind, were answered
\* with theirs.
C39_Witness ==
    /\ \E f \in SeqThreads :
          /\ pc[f] = "done" /\ loc[f].op = "memory"
          /\ loc[f].wid = NoWorker /\ ~loc[f].ret.ok
    /\ Len(log) = 3
    /\ \A i \in 1 .. 3 : log[i].op \in RoutedOps /\ ~log[i].ret.ok
    /\ \A i, j \in 1 .. 3 : i /= j => log[i].op /= log[j].op

(* ----------------- single-process task-ids: C40 ----------------------- *)
\* The replies in progress that have taken their task-id.
HasServicerTaskId(f) == servicer.call[f].task_id >= 0
\* The answers of kind op the servicer has given.
Answers(op) == {i \in 1 .. Len(servicer.out) : servicer.out[i].op = op}

\* C40: in the single-process servicers every task has the task-id that is
\* its index in _task_list, no two replies get the same task-id, also when
\* _reply runs at the same time for two different agents, and
\* update_placeholder for a task-id >= the size of the list answers that
\* the task does not exist.
C40_TaskIdIsIndexAndUnique ==
    servicer /= None =>
        /\ \A i \in 1 .. Len(servicer._task_list) :
              servicer._task_list[i]._task_id = i - 1
        /\ \A f, g \in Threads :
              (f /= g /\ HasServicerTaskId(f) /\ HasServicerTaskId(g)) =>
                  servicer.call[f].task_id /= servicer.call[g].task_id
        /\ \A i, j \in Answers("_reply") :
              (i /= j /\ servicer.out[i].ok /\ servicer.out[j].ok) =>
                  servicer.out[i].task_id /= servicer.out[j].task_id
        /\ \A i \in Answers("update_placeholder") :
              servicer.out[i].task_id >= servicer.out[i].size =>
                  ~servicer.out[i].ok

====
